---- MODULE Spec2Model ----
(***************************************************************************)
(* A model of gyf304/go-arg: the schema builder (NewParser, cmdFromStruct, *)
(* canParse) and the token interpreter (Parser.Parse, Parser.process,      *)
(* captureEnvVars, setSlice, parseValue, val).                             *)
(*                                                                         *)
(* Go strings are modelled as sequences of one-character strings, so that  *)
(* strings.HasPrefix, strings.TrimLeft and strings.Index are computed as   *)
(* the code computes them.                                                 *)
(***************************************************************************)
EXTENDS Integers, Sequences, FiniteSets, TLC

(***************************************************************************)
(* Bounds of the model.                                                    *)
(***************************************************************************)
\* the longest argument list Parse is called with
MaxArgs == 3

----------------------------------------------------------------------------
(***************************************************************************)
(* Package strings.                                                        *)
(***************************************************************************)
HasPrefix(s, p) ==
    /\ Len(s) >= Len(p)
    /\ SubSeq(s, 1, Len(p)) = p

RECURSIVE TrimLeftDash(_)
\* strings.TrimLeft(s, "-")
TrimLeftDash(s) ==
    IF s # <<>> /\ Head(s) = "-" THEN TrimLeftDash(Tail(s)) ELSE s

\* strings.Index(s, c) for a one-character c, 0-based, -1 when absent
Index(s, c) ==
    IF \E k \in 1..Len(s) : s[k] = c
    THEN (CHOOSE k \in 1..Len(s) : s[k] = c /\ \A j \in 1..(k - 1) : s[j] # c) - 1
    ELSE -1

\* s[from:] and s[:to] with Go's 0-based offsets
SliceFrom(s, from) == SubSeq(s, from + 1, Len(s))
SliceTo(s, to) == SubSeq(s, 1, to)

Uppers == <<"A", "B", "C", "D", "E", "F", "G", "H", "I", "J", "K", "L", "M",
            "N", "O", "P", "Q", "R", "S", "T", "U", "V", "W", "X", "Y", "Z">>
Lowers == <<"a", "b", "c", "d", "e", "f", "g", "h", "i", "j", "k", "l", "m",
            "n", "o", "p", "q", "r", "s", "t", "u", "v", "w", "x", "y", "z">>

ToLower(s) ==
    [k \in 1..Len(s) |->
        IF \E j \in 1..Len(Uppers) : Uppers[j] = s[k]
        THEN Lowers[CHOOSE j \in 1..Len(Uppers) : Uppers[j] = s[k]]
        ELSE s[k]]

ToUpper(s) ==
    [k \in 1..Len(s) |->
        IF \E j \in 1..Len(Lowers) : Lowers[j] = s[k]
        THEN Uppers[CHOOSE j \in 1..Len(Lowers) : Lowers[j] = s[k]]
        ELSE s[k]]

----------------------------------------------------------------------------
(***************************************************************************)
(* Types (reflect.Type) and values (reflect.Value).                        *)
(*                                                                         *)
(* A type is a record with a kind; ptr and slice carry elem, struct        *)
(* carries its name and the sequence of its fields.  A struct field is     *)
(* [name, typ, tag, anonymous], tag being the arg tag already split at its *)
(* commas; help texts are left out.  No modelled type has an UnmarshalArg  *)
(* or UnmarshalText method.                                                *)
(*                                                                         *)
(* A value is a record with the kind k of its type: scalars carry v,       *)
(* slices carry nil and the sequence v, pointers carry nil and (when not   *)
(* nil) the pointee v, structs carry the function f from field names to    *)
(* values.                                                                 *)
(***************************************************************************)
IntT == [kind |-> "int"]
UintT == [kind |-> "uint"]
StringT == [kind |-> "string"]
BoolT == [kind |-> "bool"]
ChanT == [kind |-> "chan"]
PtrT(e) == [kind |-> "ptr", elem |-> e]
SliceT(e) == [kind |-> "slice", elem |-> e]
StructT(name, fs) == [kind |-> "struct", name |-> name, fields |-> fs]

Field(name, typ, tag) ==
    [name |-> name, typ |-> typ, tag |-> tag, anonymous |-> FALSE]
Embedded(name, typ) ==
    [name |-> name, typ |-> typ, tag |-> <<>>, anonymous |-> TRUE]

NilPtr == [k |-> "ptr", nil |-> TRUE]
PtrTo(x) == [k |-> "ptr", nil |-> FALSE, v |-> x]
NilSlice == [k |-> "slice", nil |-> TRUE, v |-> <<>>]
SliceOf(xs) == [k |-> "slice", nil |-> FALSE, v |-> xs]
IntV(n) == [k |-> "int", v |-> n]
UintV(n) == [k |-> "uint", v |-> n]
StringV(s) == [k |-> "string", v |-> s]
BoolV(b) == [k |-> "bool", v |-> b]
\* the zero reflect.Value, which val returns below a nil pointer
InvalidValue == [k |-> "invalid"]

\* the fields of a struct type by name (the first of that name)
FieldNames(t) == {t.fields[j].name : j \in 1..Len(t.fields)}
FieldOf(t, n) ==
    t.fields[CHOOSE j \in 1..Len(t.fields) :
                /\ t.fields[j].name = n
                /\ \A h \in 1..(j - 1) : t.fields[h].name # n]

RECURSIVE Zero(_)
\* the zero value of a type, as reflect.New(t).Elem() holds it; a struct
\* value also records which of its fields are embedded (emb)
Zero(t) ==
    CASE t.kind = "int" -> IntV(0)
      [] t.kind = "uint" -> UintV(0)
      [] t.kind = "string" -> StringV(<<>>)
      [] t.kind = "bool" -> BoolV(FALSE)
      [] t.kind = "ptr" -> NilPtr
      [] t.kind = "slice" -> NilSlice
      [] t.kind = "struct" ->
            [k |-> "struct",
             f |-> [n \in FieldNames(t) |-> Zero(FieldOf(t, n).typ)],
             emb |-> {n \in FieldNames(t) :
                        FieldOf(t, n).anonymous /\ FieldOf(t, n).typ.kind = "struct"}]
      [] OTHER -> [k |-> t.kind]

RECURSIVE TypeAt(_, _)
\* the type of the field a chain of field names leads to from type t, as
\* val's walk finds it: through a pointer, by name, promoted fields included
TypeAt(t, fields) ==
    IF fields = <<>> THEN t
    ELSE LET u == IF t.kind = "ptr" THEN t.elem ELSE t
             n == Head(fields)
             owner == IF n \in FieldNames(u) THEN u
                      ELSE FieldOf(u, CHOOSE e \in FieldNames(u) :
                                        /\ FieldOf(u, e).anonymous
                                        /\ FieldOf(u, e).typ.kind = "struct"
                                        /\ n \in FieldNames(FieldOf(u, e).typ)).typ
         IN TypeAt(FieldOf(owner, n).typ, Tail(fields))

\* v.FieldByName(name) on a struct value: its own field, else the field
\* the one embedded struct that has it promotes, else (no struct has it, or
\* more than one at that depth) the zero Value
PromotedBy(v, name) == {e \in v.emb : name \in DOMAIN v.f[e].f}
FieldByName(v, name) ==
    IF name \in DOMAIN v.f THEN v.f[name]
    ELSE IF Cardinality(PromotedBy(v, name)) = 1
         THEN v.f[CHOOSE e \in PromotedBy(v, name) : TRUE].f[name]
         ELSE InvalidValue

RECURSIVE ValueAt(_, _)
\* Parser.val's walk from a root value v along the field names of a path:
\* a pointer is followed (a nil pointer ends the walk with the zero Value),
\* then the field is taken by name
ValueAt(v, fields) ==
    IF fields = <<>> THEN v
    ELSE IF v.k = "ptr" /\ v.nil THEN InvalidValue
    ELSE LET w == IF v.k = "ptr" THEN v.v ELSE v IN
         IF w.k # "struct" \/ FieldByName(w, Head(fields)).k = "invalid"
         THEN [k |-> "panic"]
         ELSE ValueAt(FieldByName(w, Head(fields)), Tail(fields))

RECURSIVE Store(_, _, _)
\* the root value v after x was stored at the location ValueAt(v, fields)
\* names (the effect of Set, SetLen and SetString on the Value val returned)
Store(v, fields, x) ==
    IF fields = <<>> THEN x
    ELSE IF v.k = "ptr" THEN [v EXCEPT !.v = Store(v.v, fields, x)]
    ELSE LET n == Head(fields) IN
         IF n \in DOMAIN v.f
         THEN [v EXCEPT !.f[n] = Store(v.f[n], Tail(fields), x)]
         ELSE LET via == CHOOSE e \in PromotedBy(v, n) : TRUE IN
              [v EXCEPT !.f[via] = Store(v.f[via], fields, x)]

----------------------------------------------------------------------------
(***************************************************************************)
(* Scalar coercion: scalar.ParseValue of github.com/alexflint/go-scalar,   *)
(* for the kinds the model holds (strconv.ParseInt and ParseUint in base   *)
(* 10, strconv.ParseBool, and the identity for strings).                   *)
(***************************************************************************)
Digits == <<"0", "1", "2", "3", "4", "5", "6", "7", "8", "9">>
IsDigit(c) == \E d \in 1..Len(Digits) : Digits[d] = c
DigitVal(c) == (CHOOSE d \in 1..Len(Digits) : Digits[d] = c) - 1

RECURSIVE DecimalVal(_)
DecimalVal(s) ==
    IF s = <<>> THEN 0
    ELSE 10 * DecimalVal(SubSeq(s, 1, Len(s) - 1)) + DigitVal(s[Len(s)])

\* strconv.ParseUint(s, 10, 64): one or more digits, no sign
IsUintLit(s) == s # <<>> /\ \A k \in 1..Len(s) : IsDigit(s[k])
\* strconv.ParseInt(s, 10, 64): an optional sign, then digits
IsIntLit(s) ==
    /\ s # <<>>
    /\ IsUintLit(IF s[1] \in {"+", "-"} THEN Tail(s) ELSE s)
IntVal(s) ==
    IF s[1] = "-" THEN 0 - DecimalVal(Tail(s))
    ELSE IF s[1] = "+" THEN DecimalVal(Tail(s))
    ELSE DecimalVal(s)

\* strconv.ParseBool
TrueLits == {<<"1">>, <<"t">>, <<"T">>, <<"t", "r", "u", "e">>,
             <<"T", "R", "U", "E">>, <<"T", "r", "u", "e">>}
FalseLits == {<<"0">>, <<"f">>, <<"F">>, <<"f", "a", "l", "s", "e">>,
              <<"F", "A", "L", "S", "E">>, <<"F", "a", "l", "s", "e">>}

\* the kinds scalar.ParseValue parses into
ScalarKinds == {"int", "uint", "string", "bool"}

\* scalar.ParseValue on a non-pointer value of type t: [ok, v]
ParseScalar(t, v, s) ==
    CASE t.kind = "string" -> [ok |-> TRUE, v |-> StringV(s)]
      [] t.kind = "bool" ->
            IF s \in TrueLits THEN [ok |-> TRUE, v |-> BoolV(TRUE)]
            ELSE IF s \in FalseLits THEN [ok |-> TRUE, v |-> BoolV(FALSE)]
            ELSE [ok |-> FALSE, v |-> v]
      [] t.kind = "int" ->
            IF IsIntLit(s) THEN [ok |-> TRUE, v |-> IntV(IntVal(s))]
            ELSE [ok |-> FALSE, v |-> v]
      [] t.kind = "uint" ->
            IF IsUintLit(s) THEN [ok |-> TRUE, v |-> UintV(DecimalVal(s))]
            ELSE [ok |-> FALSE, v |-> v]
      [] OTHER -> [ok |-> FALSE, v |-> v]

\* parseValue(v, s) for a settable v of type t: a nil pointer is allocated
\* first (and stays allocated when the coercion then fails), and
\* scalar.ParseValue looks through one pointer
parseValue(t, v, s) ==
    IF t.kind = "ptr"
    THEN LET p == IF v.nil THEN Zero(t.elem) ELSE v.v
             r == ParseScalar(t.elem, p, s)
         IN [ok |-> r.ok, v |-> PtrTo(r.v)]
    ELSE ParseScalar(t, v, s)

RECURSIVE AppendParsed(_, _, _, _)
\* the loop of setSlice: each string is parsed into a new element and
\* appended; the first failure returns with the earlier elements appended
AppendParsed(elem, ptr, dest, values) ==
    IF values = <<>> THEN [ok |-> TRUE, v |-> dest]
    ELSE LET r == parseValue(elem, Zero(elem), Head(values)) IN
         IF ~r.ok THEN [ok |-> FALSE, v |-> dest]
         ELSE AppendParsed(elem, ptr,
                           SliceOf(Append(dest.v, IF ptr THEN PtrTo(r.v) ELSE r.v)),
                           Tail(values))

\* setSlice(dest, values, trunc) for a settable slice dest of type t
setSlice(t, dest, values, trunc) ==
    LET ptr == t.elem.kind = "ptr"
        elem == IF ptr THEN t.elem.elem ELSE t.elem
        d0 == IF trunc /\ ~dest.nil THEN SliceOf(<<>>) ELSE dest
    IN AppendParsed(elem, ptr, d0, values)

----------------------------------------------------------------------------
(***************************************************************************)
(* reflect.go: which field types can be parsed.                            *)
(***************************************************************************)
\* scalar.CanParse looks through one pointer and accepts the scalar kinds
canParseWrapped(t) ==
    LET u == IF t.kind = "ptr" THEN t.elem ELSE t IN u.kind \in ScalarKinds

isBoolean(t) ==
    \/ t.kind = "bool"
    \/ t.kind = "ptr" /\ t.elem.kind = "bool"

\* canParse(t): [parseable, boolean, multiple]
canParse(t) ==
    IF canParseWrapped(t)
    THEN [parseable |-> TRUE, boolean |-> isBoolean(t), multiple |-> FALSE]
    ELSE LET t1 == IF t.kind = "ptr" THEN t.elem ELSE t
             mult == t1.kind = "slice"
             t2 == IF mult THEN t1.elem ELSE t1
         IN IF canParseWrapped(t2)
            THEN [parseable |-> TRUE, boolean |-> isBoolean(t2), multiple |-> mult]
            ELSE LET t3 == IF t2.kind = "ptr" THEN t2.elem ELSE t2 IN
                 IF canParseWrapped(t3)
                 THEN [parseable |-> TRUE, boolean |-> isBoolean(t3),
                       multiple |-> mult]
                 ELSE [parseable |-> FALSE, boolean |-> FALSE, multiple |-> FALSE]

----------------------------------------------------------------------------
(***************************************************************************)
(* Paths, specs and commands, and the schema builder.                      *)
(***************************************************************************)
\* path{root: i}
RootPath(i) == [root |-> i, fields |-> <<>>]

\* path.Child: a new path with child appended to a copy of the fields
Child(p, child) == [root |-> p.root, fields |-> Append(p.fields, child)]

\* the keys of the arg tag that are words
KeyRequired == <<"r", "e", "q", "u", "i", "r", "e", "d">>
KeyPositional == <<"p", "o", "s", "i", "t", "i", "o", "n", "a", "l">>
KeySeparate == <<"s", "e", "p", "a", "r", "a", "t", "e">>
KeyHelp == <<"h", "e", "l", "p">>
KeyEnv == <<"e", "n", "v">>
KeySubcommand == <<"s", "u", "b", "c", "o", "m", "m", "a", "n", "d">>

\* the spec a field starts with (the zero spec but for dest, long and typ)
NewSpec(subdest, field) ==
    [dest |-> subdest, typ |-> field.typ, long |-> ToLower(field.name),
     short |-> <<>>, multiple |-> FALSE, required |-> FALSE,
     positional |-> FALSE, separate |-> FALSE, env |-> <<>>, boolean |-> FALSE]

RECURSIVE cmdFromStruct(_, _, _)
RECURSIVE walkFields(_, _, _)
RECURSIVE VisitKeys(_, _, _, _)

\* case key == "subcommand": the field's struct is parsed recursively; sub
\* is what cmdFromStruct returned for it
SubcommandKey(st, sub) ==
    IF ~sub.ok
    THEN [st EXCEPT !.errs = Append(@, [kind |-> "subcommand", errs |-> sub.errs]),
                    !.returned = TRUE]
    ELSE [st EXCEPT !.subcommands = Append(@, sub.cmd),
                    !.isSubcommand = TRUE]

\* the body of the loop over the keys of a tag, for the key and value one
\* entry of the tag splits into at its colon
VisitKey(key, value, field, owner, st) ==
    CASE HasPrefix(key, <<"-", "-", "-">>) ->
             [st EXCEPT !.errs = Append(@,
                 [kind |-> "too many hyphens", owner |-> owner,
                  field |-> field.name])]
      [] HasPrefix(key, <<"-", "-">>) /\ ~HasPrefix(key, <<"-", "-", "-">>) ->
             [st EXCEPT !.spec.long = SliceFrom(key, 2)]
      [] HasPrefix(key, <<"-">>) /\ ~HasPrefix(key, <<"-", "-">>) ->
             IF Len(key) # 2
             THEN [st EXCEPT !.errs = Append(@,
                     [kind |-> "short arguments must be one character only",
                      owner |-> owner, field |-> field.name]),
                   !.returned = TRUE]
             ELSE [st EXCEPT !.spec.short = SliceFrom(key, 1)]
      [] key = KeyRequired -> [st EXCEPT !.spec.required = TRUE]
      [] key = KeyPositional -> [st EXCEPT !.spec.positional = TRUE]
      [] key = KeySeparate -> [st EXCEPT !.spec.separate = TRUE]
      [] key = KeyHelp -> st
      [] key = KeyEnv ->
             [st EXCEPT !.spec.env =
                 IF value # <<>> THEN value ELSE ToUpper(field.name)]
      [] key = KeySubcommand ->
             SubcommandKey(st,
                 cmdFromStruct(IF value = <<>> THEN ToLower(field.name) ELSE value,
                               st.spec.dest, field.typ))
      [] OTHER ->
             [st EXCEPT !.errs = Append(@,
                 [kind |-> "unrecognized tag", key |-> key,
                  tag |-> field.tag]),
              !.returned = TRUE]

\* key and value of one entry of a tag: "key:value"
KeyOf(raw) == IF Index(raw, ":") # -1 THEN SliceTo(raw, Index(raw, ":")) ELSE raw
TagValueOf(raw) ==
    IF Index(raw, ":") # -1 THEN SliceFrom(raw, Index(raw, ":") + 1) ELSE <<>>

\* the loop over the keys of one field's tag.  st is [spec, isSubcommand,
\* subcommands, errs, returned]: returned is set where the visitor returns
\* from inside the loop, which skips the remaining keys and the spec
VisitKeys(keys, field, owner, st) ==
    IF keys = <<>> \/ st.returned THEN st
    ELSE VisitKeys(Tail(keys), field, owner,
                   VisitKey(KeyOf(Head(keys)), TagValueOf(Head(keys)),
                            field, owner, st))

\* the end of the visitor without the check of the field's type
AfterKeysUnchecked(field, owner, acc, st, can) ==
    IF st.returned \/ st.isSubcommand
    THEN [acc EXCEPT !.subcommands = st.subcommands, !.errs = st.errs]
    ELSE [specs |-> Append(acc.specs,
                           [st.spec EXCEPT !.boolean = can.boolean,
                                           !.multiple = can.multiple]),
          subcommands |-> st.subcommands,
          errs |-> st.errs]

\* the end of the visitor, after the loop over the keys left st: unless the
\* field is a subcommand its spec is appended, and its type is checked
AfterKeys(field, owner, acc, st, can) ==
    IF st.returned \/ st.isSubcommand
    THEN [acc EXCEPT !.subcommands = st.subcommands, !.errs = st.errs]
    ELSE [specs |-> Append(acc.specs,
                           [st.spec EXCEPT !.boolean = can.boolean,
                                           !.multiple = can.multiple]),
          subcommands |-> st.subcommands,
          errs |-> IF can.parseable THEN st.errs
                   ELSE Append(st.errs,
                          [kind |-> "fields are not supported",
                           owner |-> owner, field |-> field.name])]

\* the visitor cmdFromStruct passes to walkFields, for one field of owner;
\* acc is [specs, subcommands, errs] of the command being built.  The
\* result is acc after the field, and whether walkFields is to expand it
Visit(dest, field, owner, acc) ==
    IF field.tag = << <<"-">> >> THEN [acc |-> acc, expand |-> FALSE]
    ELSE IF field.anonymous /\ field.typ.kind = "struct"
    THEN [acc |-> acc, expand |-> TRUE]
    ELSE [expand |-> FALSE,
          acc |-> AfterKeys(field, owner, acc,
                    VisitKeys(field.tag, field, owner,
                              [spec |-> NewSpec(Child(dest, field.name), field),
                               isSubcommand |-> FALSE,
                               subcommands |-> acc.subcommands,
                               errs |-> acc.errs,
                               returned |-> FALSE]),
                    canParse(field.typ))]

\* one turn of the loop of walkFields: r is what the visitor returned for
\* the field
Expand(dest, field, r) ==
    IF r.expand /\ field.typ.kind = "struct"
    THEN walkFields(dest, field.typ, r.acc)
    ELSE r.acc

\* walkFields stopping at the first field that recorded an error
walkFieldsToFirstError(dest, t, acc) ==
    IF t.fields = <<>> \/ acc.errs # <<>> THEN acc
    ELSE walkFields(dest, [t EXCEPT !.fields = Tail(t.fields)],
                    Expand(dest, Head(t.fields),
                           Visit(dest, Head(t.fields), t.name, acc)))

\* walkFields(t, visit) over the fields of struct type t, in order
walkFields(dest, t, acc) ==
    IF t.fields = <<>> THEN acc
    ELSE walkFields(dest, [t EXCEPT !.fields = Tail(t.fields)],
                    Expand(dest, Head(t.fields),
                           Visit(dest, Head(t.fields), t.name, acc)))

\* whether a command has a positional spec
HasPositional(specs) == \E k \in 1..Len(specs) : specs[k].positional

\* the end of cmdFromStruct, after walkFields left acc
CheckCommand(name, dest, acc) ==
    IF Len(acc.errs) > 0
    THEN [ok |-> FALSE, errs |-> acc.errs]
    ELSE IF HasPositional(acc.specs) /\ Len(acc.subcommands) > 0
    THEN [ok |-> FALSE,
          errs |-> <<[kind |-> "cannot have both subcommands and positional arguments",
                      dest |-> dest]>>]
    ELSE [ok |-> TRUE, errs |-> <<>>,
          cmd |-> [name |-> name, dest |-> dest, specs |-> acc.specs,
                   subcommands |-> acc.subcommands]]

\* cmdFromStruct(name, dest, t): [ok, cmd, errs]
cmdFromStruct(name, dest, t) ==
    IF t.kind # "ptr"
    THEN [ok |-> FALSE, errs |-> <<[kind |-> "subcommands must be pointers to structs",
                                    dest |-> dest]>>]
    ELSE IF t.elem.kind # "struct"
    THEN [ok |-> FALSE, errs |-> <<[kind |-> "subcommands must be pointers to structs",
                                    dest |-> dest]>>]
    ELSE CheckCommand(name, dest,
                      walkFields(dest, t.elem,
                                 [specs |-> <<>>, subcommands |-> <<>>,
                                  errs |-> <<>>]))

\* one turn of the loop of NewParser: r is what cmdFromStruct returned
RECURSIVE BuildRoots(_, _, _)
MergeRoot(types, i, cmd, r) ==
    IF ~r.ok THEN [ok |-> FALSE, errs |-> r.errs]
    ELSE BuildRoots(types, i + 1,
                    [cmd EXCEPT !.specs = @ \o r.cmd.specs,
                                !.subcommands = @ \o r.cmd.subcommands])

\* the loop of NewParser over the destinations, from destination i on
\* (0-based, as path.root is): the first error is returned, otherwise the
\* specs and subcommands of each destination are appended to the root's
BuildRoots(types, i, cmd) ==
    IF i >= Len(types) THEN [ok |-> TRUE, errs |-> <<>>, cmd |-> cmd]
    ELSE MergeRoot(types, i, cmd,
                   cmdFromStruct(cmd.name, RootPath(i), types[i + 1]))

\* the name NewParser picks when Config.Program is empty and os.Args is too
ProgramName == <<"p", "r", "o", "g", "r", "a", "m">>

\* NewParser(config, dests...): [ok, cmd, errs]
NewParser(types) ==
    BuildRoots(types, 0,
               [name |-> ProgramName, dest |-> RootPath(0), specs |-> <<>>,
                subcommands |-> <<>>])

----------------------------------------------------------------------------
(***************************************************************************)
(* Errors.                                                                 *)
(***************************************************************************)
Nil == [kind |-> "nil"]
ErrHelp == [kind |-> "help requested by user"]
ErrVersion == [kind |-> "version requested by user"]

Dashes == <<"-", "-">>
ShortHelp == <<"-", "h">>
LongHelp == <<"-", "-", "h", "e", "l", "p">>
LongVersion == <<"-", "-", "v", "e", "r", "s", "i", "o", "n">>
TrueText == <<"t", "r", "u", "e">>

----------------------------------------------------------------------------
(***************************************************************************)
(* Helpers of process.                                                     *)
(***************************************************************************)
\* isFlag: a flag such as -v or --user, but not - or --
isFlag(s) == HasPrefix(s, <<"-">>) /\ TrimLeftDash(s) # <<>>

\* a lookahead that takes no flag-shaped token for a number
NeverNumeric(t, s) == FALSE

\* nextIsNumeric(t, s): whether s parses as a value of the numeric kind of
\* t, looking through pointers
RECURSIVE nextIsNumeric(_, _)
nextIsNumeric(t, s) ==
    CASE t.kind = "ptr" -> nextIsNumeric(t.elem, s)
      [] t.kind \in {"int", "uint"} -> parseValue(PtrT(t), PtrTo(Zero(t)), s).ok
      [] OTHER -> FALSE

\* a lookup that takes the last matching spec
findLastOption(specs, name) ==
    LET hits == {k \in 1..Len(specs) :
                   /\ ~specs[k].positional
                   /\ (specs[k].long = name \/ specs[k].short = name)}
    IN IF hits = {} THEN 0 ELSE CHOOSE k \in hits : \A h \in hits : k >= h

\* findOption(specs, name): the index of the first spec that is not
\* positional and whose long or short name is name, 0 for nil
findOption(specs, name) ==
    LET hits == {k \in 1..Len(specs) :
                   /\ ~specs[k].positional
                   /\ (specs[k].long = name \/ specs[k].short = name)}
    IN IF hits = {} THEN 0 ELSE CHOOSE k \in hits : \A h \in hits : k <= h

\* a lookup that takes the first subcommand whatever the name
AnySubcommand(cmds, name) == IF cmds = <<>> THEN 0 ELSE 1

\* findSubcommand(cmds, name): the index of the first command of that name,
\* 0 for nil
findSubcommand(cmds, name) ==
    LET hits == {k \in 1..Len(cmds) : cmds[k].name = name}
    IN IF hits = {} THEN 0 ELSE CHOOSE k \in hits : \A h \in hits : k <= h

RECURSIVE SplitComma(_)
\* the record encoding/csv reads from a line without quotes: its fields
SplitComma(s) ==
    LET pos == Index(s, ",") IN
    IF pos = -1 THEN <<s>>
    ELSE <<SliceTo(s, pos)>> \o SplitComma(SliceFrom(s, pos + 1))

\* csv.NewReader(strings.NewReader(value)).Read(): an empty input is io.EOF
CsvRead(value) ==
    IF value = <<>> THEN [ok |-> FALSE, values |-> <<>>]
    ELSE [ok |-> TRUE, values |-> SplitComma(value)]

\* p.val(dest) on the roots rs
val(rs, dest) == ValueAt(rs[dest.root + 1], dest.fields)

\* the roots after x is stored where p.val(dest) points
SetVal(rs, dest, x) ==
    [rs EXCEPT ![dest.root + 1] = Store(@, dest.fields, x)]

\* a panic that unwinds Parse
Panicked == [kind |-> "panic"]
\* p.val(dest) gave no location: it returned the zero Value or panicked
Unresolved(v) == v.k \in {"invalid", "panic"}
\* the call that is handed v panics: val panicked, or parseValue was given
\* the zero Value (setSlice reports the zero Value as not writable)
Panics(v, multiple) == v.k = "panic" \/ (v.k = "invalid" /\ ~multiple)

\* a seeding that starts from an empty presence map
captureEnvVarsFresh(specs, e, st) == [st EXCEPT !.wasPresent = {}]

RECURSIVE captureEnvVars(_, _, _)
\* captureEnvVars(specs, wasPresent) under environment e, on the state
\* st = [roots, wasPresent, log, err]: the specs are seeded in order and
\* the first failure returns
captureEnvVars(specs, e, st) ==
    IF specs = <<>> \/ st.err # Nil THEN st
    ELSE LET spec == Head(specs) IN
         IF spec.env = <<>> \/ spec.env \notin DOMAIN e
         THEN captureEnvVars(Tail(specs), e, st)
         ELSE LET value == e[spec.env]
                  csv == CsvRead(value)
                  r == IF spec.multiple
                       THEN setSlice(spec.typ, val(st.roots, spec.dest),
                                     csv.values, ~spec.separate)
                       ELSE parseValue(spec.typ, val(st.roots, spec.dest), value)
                  st1 ==
                    IF spec.multiple /\ ~csv.ok
                    THEN [st EXCEPT !.err = [kind |-> "error reading a CSV string from environment variable",
                                             env |-> spec.env]]
                    ELSE IF Panics(val(st.roots, spec.dest), spec.multiple)
                    THEN [st EXCEPT !.err = Panicked]
                    ELSE IF Unresolved(val(st.roots, spec.dest))
                    THEN [st EXCEPT !.err = [kind |-> "error processing environment variable with multiple values",
                                             env |-> spec.env]]
                    ELSE [st EXCEPT
                            !.roots = SetVal(@, spec.dest, r.v),
                            !.log = Append(@, [op |-> "env", spec |-> spec.dest,
                                               values |-> IF spec.multiple
                                                          THEN csv.values
                                                          ELSE <<value>>,
                                               ok |-> r.ok]),
                            !.wasPresent = IF r.ok THEN @ \cup {spec} ELSE @,
                            !.err = IF r.ok THEN Nil
                                    ELSE IF spec.multiple
                                    THEN [kind |-> "error processing environment variable with multiple values",
                                          env |-> spec.env]
                                    ELSE [kind |-> "error processing environment variable",
                                          env |-> spec.env]]
              IN captureEnvVars(Tail(specs), e, st1)

----------------------------------------------------------------------------
(***************************************************************************)
(* The programs the model runs: destination structs with their tags and    *)
(* pre-populated defaults, the environments they run under and the tokens  *)
(* their command lines are made of.                                        *)
(***************************************************************************)
EnvKey(name) == KeyEnv \o <<":">> \o name

\* struct{ N int `arg:"-i,required,env:EN"`; S string;
\*         W *uint `arg:"required"` }
SingleOpts ==
    StructT(<<"A">>,
      << Field(<<"N">>, IntT, << <<"-", "i">>, KeyRequired, EnvKey(<<"E", "N">>) >>),
         Field(<<"S">>, StringT, <<>>),
         Field(<<"W">>, PtrT(UintT), <<KeyRequired>>) >>)

\* struct{ T []string `arg:"env,required"`; U []string `arg:"separate,env"`;
\*         K []int `arg:"separate,required"` }, T and U pre-populated
MultiOpts ==
    StructT(<<"B">>,
      << Field(<<"T">>, SliceT(StringT), <<KeyEnv, KeyRequired>>),
         Field(<<"U">>, SliceT(StringT), <<KeySeparate, KeyEnv>>),
         Field(<<"K">>, SliceT(IntT), <<KeySeparate, KeyRequired>>) >>)

\* struct{ P []string `arg:"positional"` }
Leaf == StructT(<<"Leaf">>, << Field(<<"P">>, SliceT(StringT), <<KeyPositional>>) >>)

\* struct{ M *int `arg:"required,env"`; D *Leaf `arg:"subcommand"` }
Sub ==
    StructT(<<"Sub">>,
      << Field(<<"M">>, PtrT(IntT), <<KeyRequired, KeyEnv>>),
         Field(<<"D">>, PtrT(Leaf), <<KeySubcommand>>) >>)

\* struct{ V bool; C *Sub `arg:"subcommand"` }, C pre-populated
WithSubs ==
    StructT(<<"R">>,
      << Field(<<"V">>, BoolT, <<>>),
         Field(<<"C">>, PtrT(Sub), <<KeySubcommand>>) >>)

\* struct{ S string `arg:"-z"` }, embedded below
Common == StructT(<<"Common">>, << Field(<<"S">>, StringT, << <<"-", "z">> >>) >>)

\* struct{ P string `arg:"positional,required"`; Q []int `arg:"positional"`;
\*         Common }
Positionals ==
    StructT(<<"P">>,
      << Field(<<"P">>, StringT, <<KeyPositional, KeyRequired>>),
         Field(<<"Q">>, SliceT(IntT), <<KeyPositional>>),
         Embedded(<<"Common">>, Common) >>)

\* struct{ P string `arg:"positional"` } and
\* struct{ C *Leaf `arg:"subcommand"` }, two destinations of one parser
PosOnly == StructT(<<"X">>, << Field(<<"P">>, StringT, <<KeyPositional>>) >>)
SubOnly == StructT(<<"Y">>, << Field(<<"C">>, PtrT(Leaf), <<KeySubcommand>>) >>)

\* struct{ P string `arg:"positional"`; C *Leaf `arg:"subcommand"` }
Both ==
    StructT(<<"Z">>,
      << Field(<<"P">>, StringT, <<KeyPositional>>),
         Field(<<"C">>, PtrT(Leaf), <<KeySubcommand>>) >>)

\* struct{ C *Both `arg:"subcommand"` }
NestedBoth == StructT(<<"Outer">>, << Field(<<"C">>, PtrT(Both), <<KeySubcommand>>) >>)

\* struct{ A int `arg:"positional"`; B string `arg:"positional"` }
Pair ==
    StructT(<<"Pair">>,
      << Field(<<"A">>, IntT, <<KeyPositional>>),
         Field(<<"B">>, StringT, <<KeyPositional>>) >>)

\* struct{ A int `arg:"bogus"`; B int `arg:"-ab"`; C int `arg:"---c"`;
\*         D chan int; E int `arg:"subcommand"`; F int }
Faulty ==
    StructT(<<"Faulty">>,
      << Field(<<"A">>, IntT, << <<"b", "o", "g", "u", "s">> >>),
         Field(<<"B">>, IntT, << <<"-", "a", "b">> >>),
         Field(<<"C">>, IntT, << <<"-", "-", "-", "c">> >>),
         Field(<<"D">>, ChanT, <<>>),
         Field(<<"E">>, IntT, <<KeySubcommand>>),
         Field(<<"F">>, IntT, <<>>) >>)

\* struct{ X chan int }, embedded below, and struct{ Y chan int }, a
\* subcommand below
InnerBad == StructT(<<"InnerBad">>, << Field(<<"X">>, ChanT, <<>>) >>)
SubBad == StructT(<<"SubBad">>, << Field(<<"Y">>, ChanT, <<>>) >>)

\* struct{ InnerBad; S *SubBad `arg:"subcommand"`; G int }
Nesting ==
    StructT(<<"Nesting">>,
      << Embedded(<<"InnerBad">>, InnerBad),
         Field(<<"S">>, PtrT(SubBad), <<KeySubcommand>>),
         Field(<<"G">>, IntT, <<>>) >>)

\* struct{ D chan int } and struct{ Y chan int }, two destinations of one
\* parser
FirstBad == StructT(<<"FirstBad">>, << Field(<<"D">>, ChanT, <<>>) >>)
SecondBad == StructT(<<"SecondBad">>, << Field(<<"Y">>, ChanT, <<>>) >>)

\* struct{ X chan int `arg:"bogus"` }
Tagged ==
    StructT(<<"Tagged">>,
      << Field(<<"X">>, ChanT, << <<"b", "o", "g", "u", "s">> >>) >>)

\* struct{ X chan int `arg:"-"`; N int; S string }
Ignored ==
    StructT(<<"Ignored">>,
      << Field(<<"X">>, ChanT, << <<"-">> >>),
         Field(<<"N">>, IntT, <<>>),
         Field(<<"S">>, StringT, <<>>) >>)

\* struct{ M int `arg:"env"`; O int }, a subcommand below
Inner ==
    StructT(<<"Inner">>,
      << Field(<<"M">>, IntT, <<KeyEnv>>),
         Field(<<"O">>, IntT, <<>>) >>)

\* struct{ M int `arg:"env"`; C *Inner `arg:"subcommand"` }: the root and
\* its subcommand both declare --m and read the variable M
Shadow ==
    StructT(<<"Shadow">>,
      << Field(<<"M">>, IntT, <<KeyEnv>>),
         Field(<<"C">>, PtrT(Inner), <<KeySubcommand>>) >>)

\* struct{ T []string } twice, both embedded in struct{ First; Second }
First == StructT(<<"First">>, << Field(<<"T">>, SliceT(StringT), <<>>) >>)
Second == StructT(<<"Second">>, << Field(<<"T">>, SliceT(StringT), <<>>) >>)
Twice ==
    StructT(<<"Twice">>,
      << Embedded(<<"First">>, First), Embedded(<<"Second">>, Second) >>)

\* a destination of struct type t as the caller passes it: a pointer to the
\* struct, its fields zero but for the defaults (pairs of path and value)
RECURSIVE WithDefaults(_, _)
WithDefaults(v, defaults) ==
    IF defaults = <<>> THEN v
    ELSE WithDefaults(Store(v, Head(defaults)[1], Head(defaults)[2]), Tail(defaults))
Dest(t, defaults) == WithDefaults(PtrTo(Zero(t)), defaults)

NoEnv == <<>>

Programs ==
    << [types |-> <<PtrT(SingleOpts)>>,
        roots |-> <<Dest(SingleOpts, <<>>)>>,
        envs |-> {NoEnv, <<"E", "N">> :> <<"5">>, <<"E", "N">> :> <<"x">>},
        tokens |-> {<<"-", "-", "n">>, <<"-", "i">>, <<"-", "5">>, <<"7">>,
                    <<"-", "-", "s">>, <<"-", "-", "w">>, <<"-", "-", "=", "x">>,
                    ShortHelp, Dashes}],
       [types |-> <<PtrT(MultiOpts)>>,
        roots |-> <<Dest(MultiOpts,
                         << << <<<<"T">>>>, SliceOf(<<StringV(<<"d">>)>>) >>,
                            << <<<<"U">>>>, SliceOf(<<StringV(<<"d">>)>>) >> >>)>>,
        envs |-> {NoEnv, <<"T">> :> <<"e", ",", "f">> @@ <<"U">> :> <<"e">>},
        tokens |-> {<<"-", "-", "t">>, <<"-", "-", "u">>, <<"-", "-", "k">>,
                    <<"a">>, <<"7">>, <<"-", "-", "k", "=", "7">>,
                    <<"-", "-", "u", "=", "b">>, ShortHelp, Dashes}],
       [types |-> <<PtrT(WithSubs)>>,
        roots |-> <<Dest(WithSubs,
                         << << <<<<"C">>>>,
                               PtrTo([Zero(Sub) EXCEPT
                                        !.f[<<"M">>] = PtrTo(IntV(9))]) >> >>)>>,
        envs |-> {NoEnv, <<"M">> :> <<"5">>, <<"M">> :> <<"x">>},
        tokens |-> {<<"c">>, <<"d">>, <<"x">>, <<"-", "-", "m">>, <<"7">>,
                    <<"-", "-", "v">>, LongHelp, LongVersion, Dashes}],
       [types |-> <<PtrT(Positionals)>>,
        roots |-> <<Dest(Positionals, <<>>)>>,
        envs |-> {NoEnv},
        tokens |-> {<<"a">>, <<"7">>, <<"-", "-", "p">>, <<"-", "z">>,
                    <<"-", "-", "=", "x">>, ShortHelp, Dashes}],
       [types |-> <<PtrT(PosOnly), PtrT(SubOnly)>>,
        roots |-> <<Dest(PosOnly, <<>>), Dest(SubOnly, <<>>)>>,
        envs |-> {NoEnv},
        tokens |-> {<<"a">>, <<"c">>, Dashes}],
       [types |-> <<PtrT(Both)>>,
        roots |-> <<Dest(Both, <<>>)>>,
        envs |-> {NoEnv},
        tokens |-> {<<"a">>}],
       [types |-> <<PtrT(NestedBoth)>>,
        roots |-> <<Dest(NestedBoth, <<>>)>>,
        envs |-> {NoEnv},
        tokens |-> {<<"a">>}],
       [types |-> <<PtrT(Pair)>>,
        roots |-> <<Dest(Pair, <<>>)>>,
        envs |-> {NoEnv},
        tokens |-> {<<"a">>, <<"7">>, <<"-", "5">>, Dashes}],
       [types |-> <<PtrT(Faulty)>>,
        roots |-> <<Dest(Faulty, <<>>)>>,
        envs |-> {NoEnv},
        tokens |-> {<<"a">>}],
       [types |-> <<PtrT(Nesting)>>,
        roots |-> <<Dest(Nesting, <<>>)>>,
        envs |-> {NoEnv},
        tokens |-> {<<"a">>}],
       [types |-> <<PtrT(Tagged)>>,
        roots |-> <<Dest(Tagged, <<>>)>>,
        envs |-> {NoEnv},
        tokens |-> {<<"a">>}],
       [types |-> <<PtrT(FirstBad), PtrT(SecondBad)>>,
        roots |-> <<Dest(FirstBad, <<>>), Dest(SecondBad, <<>>)>>,
        envs |-> {NoEnv},
        tokens |-> {<<"a">>}],
       [types |-> <<PtrT(Ignored)>>,
        roots |-> <<Dest(Ignored, <<>>)>>,
        envs |-> {NoEnv},
        tokens |-> {<<"-", "-", "n">>, <<"7">>, <<"-", "-", "s", "=">>,
                    <<"-", "-", "s", "=", "7">>}],
       [types |-> <<PtrT(Shadow)>>,
        roots |-> <<Dest(Shadow, <<>>)>>,
        envs |-> {NoEnv, <<"M">> :> <<"5">>},
        tokens |-> {<<"-", "-", "m">>, <<"7">>, <<"c">>, <<"-", "-", "o">>}],
       [types |-> <<PtrT(Twice)>>,
        roots |-> <<Dest(Twice, <<>>)>>,
        envs |-> {NoEnv},
        tokens |-> {<<"-", "-", "t">>, <<"x">>}] >>

\* the argument lists of at most MaxArgs tokens
ArgLists(tokens) == UNION {[1..n -> tokens] : n \in 0..MaxArgs}

----------------------------------------------------------------------------
(***************************************************************************)
(* State.                                                                  *)
(*   types, roots, env   the destinations (their types and their values)   *)
(*                       and the process environment                       *)
(*   built, cmd, buildErrs   the outcome of NewParser: Parser.cmd          *)
(*   lastCmd             Parser.lastCmd                                    *)
(*   args                the argument of Parse                             *)
(*   curCmd, specs, wasPresent, allpositional, positionals, i              *)
(*                       the locals of process                             *)
(*   err, result         what process and Parse return                     *)
(*   pc                  where the program is                              *)
(*   prog, log           which program runs, and the calls of setSlice and *)
(*                       parseValue made so far (history, read by no       *)
(*                       action)                                           *)
(***************************************************************************)
VARIABLES prog, types, roots, env, built, cmd, buildErrs, lastCmd, args,
          curCmd, specs, wasPresent, allpositional, positionals, i, err,
          result, pc, log, arrays, paths

vars == <<prog, types, roots, env, built, cmd, buildErrs, lastCmd, args,
          curCmd, specs, wasPresent, allpositional, positionals, i, err,
          result, pc, log, arrays, paths>>

NoCmd == [name |-> <<>>, dest |-> RootPath(0), specs |-> <<>>, subcommands |-> <<>>]

Init ==
    /\ prog \in 1..Len(Programs)
    /\ types = Programs[prog].types
    /\ roots = Programs[prog].roots
    /\ env \in Programs[prog].envs
    /\ built = FALSE
    /\ cmd = NoCmd
    /\ buildErrs = <<>>
    /\ lastCmd = NoCmd
    /\ args = <<>>
    /\ curCmd = NoCmd
    /\ specs = <<>>
    /\ wasPresent = {}
    /\ allpositional = FALSE
    /\ positionals = <<>>
    /\ i = 0
    /\ err = Nil
    /\ result = Nil
    /\ pc = "new"
    /\ log = <<>>
    /\ arrays = <<>>
    /\ paths = <<>>

----------------------------------------------------------------------------
(***************************************************************************)
(* NewParser.                                                              *)
(***************************************************************************)
NewParserCall ==
    /\ pc = "new"
    /\ LET r == NewParser(types) IN
       IF r.ok
       THEN /\ built' = TRUE
            /\ cmd' = r.cmd
            /\ buildErrs' = <<>>
            /\ pc' = "ready"
       ELSE /\ built' = FALSE
            /\ cmd' = NoCmd
            /\ buildErrs' = r.errs
            /\ pc' = "failed"
    /\ UNCHANGED <<arrays, paths, prog, types, roots, env, lastCmd, args, curCmd, specs,
                   wasPresent, allpositional, positionals, i, err, result, log>>

(***************************************************************************)
(* Parser.Parse and Parser.process.                                        *)
(***************************************************************************)
\* an assignment made only while p.lastCmd is unset
keepLastCmd(cur, last) == IF last = NoCmd THEN cur ELSE last

\* p.lastCmd = curCmd: what p.lastCmd is afterwards, last being what it was
setLastCmd(cur, last) == cur

\* Parse(args) is called; process runs up to its loop over the arguments:
\* the locals are initialised and the root's specs seeded from the
\* environment
ProcessStart ==
    /\ pc = "ready"
    /\ \E a \in ArgLists(Programs[prog].tokens) : args' = a
    /\ LET st == captureEnvVars(cmd.specs, env,
                                [roots |-> roots, wasPresent |-> {},
                                 log |-> log, err |-> Nil])
       IN /\ roots' = st.roots
          /\ wasPresent' = st.wasPresent
          /\ log' = st.log
          /\ err' = st.err
          /\ pc' = IF st.err = Panicked THEN "panic"
                   ELSE IF st.err # Nil THEN "return" ELSE "loop"
    /\ curCmd' = cmd
    /\ lastCmd' = setLastCmd(cmd, lastCmd)
    /\ specs' = cmd.specs
    /\ allpositional' = FALSE
    /\ positionals' = <<>>
    /\ i' = 0
    /\ UNCHANGED <<arrays, paths, prog, types, env, built, cmd, buildErrs, result>>

\* the head of the loop: args[i] exists
AtToken == pc = "loop" /\ i < Len(args)
Arg == args[i + 1]
\* the token is buffered or names a subcommand
Dispatched == Arg # Dashes /\ (~isFlag(Arg) \/ allpositional)
\* the token is read as a flag
ReadAsFlag == Arg # Dashes /\ isFlag(Arg) /\ ~allpositional
\* the switch without its "--version" case
HelpOnly == Arg \in {ShortHelp, LongHelp}

IsSpecial == Arg \in {ShortHelp, LongHelp, LongVersion}

\* opt and value of "--opt=value"
OptOf(arg) ==
    LET opt == TrimLeftDash(arg)
        pos == Index(opt, "=")
    IN IF pos # -1 THEN SliceTo(opt, pos) ELSE opt
ValueOf(arg) ==
    LET opt == TrimLeftDash(arg)
        pos == Index(opt, "=")
    IN IF pos # -1 THEN SliceFrom(opt, pos + 1) ELSE <<>>

\* process returns e
Return(e) ==
    /\ err' = e
    /\ pc' = IF e = Panicked THEN "panic" ELSE "return"

\* if arg == "--" { allpositional = true; continue }
EndOfOptions ==
    /\ AtToken
    /\ Arg = Dashes
    /\ allpositional' = TRUE
    /\ i' = i + 1
    /\ UNCHANGED <<arrays, paths, prog, types, roots, env, built, cmd, buildErrs, lastCmd,
                   args, curCmd, specs, wasPresent, positionals, err, result,
                   pc, log>>

\* positionals = append(positionals, arg)
BufferPositional ==
    /\ AtToken
    /\ Dispatched
    /\ Len(curCmd.subcommands) = 0
    /\ positionals' = Append(positionals, Arg)
    /\ i' = i + 1
    /\ UNCHANGED <<arrays, paths, prog, types, roots, env, built, cmd, buildErrs, lastCmd,
                   args, curCmd, specs, wasPresent, allpositional, err,
                   result, pc, log>>

\* findSubcommand returned nil
InvalidSubcommand ==
    /\ AtToken
    /\ Dispatched
    /\ Len(curCmd.subcommands) # 0
    /\ findSubcommand(curCmd.subcommands, Arg) = 0
    /\ Return([kind |-> "invalid subcommand", arg |-> Arg])
    /\ UNCHANGED <<arrays, paths, prog, types, roots, env, built, cmd, buildErrs, lastCmd,
                   args, curCmd, specs, wasPresent, allpositional,
                   positionals, i, result, log>>

\* an append made on the root's own list instead of the copy
appendToRoot(tree, ss, more) ==
    [cmd |-> [tree EXCEPT !.specs = @ \o more], specs |-> ss \o more]

\* specs = append(specs, subcmd.specs...) on the copy process made of the
\* root's list: the tree and the list in scope afterwards
appendSpecs(tree, ss, more) == [cmd |-> tree, specs |-> ss \o more]

\* the subcommand's struct is allocated, its specs come into scope and are
\* seeded from the environment, and it becomes the current command
EnterSubcommand ==
    /\ AtToken
    /\ Dispatched
    /\ Len(curCmd.subcommands) # 0
    /\ findSubcommand(curCmd.subcommands, Arg) # 0
    /\ LET subcmd == curCmd.subcommands[findSubcommand(curCmd.subcommands, Arg)]
           v == val(roots, subcmd.dest)
           fresh == PtrTo(Zero(TypeAt(types[subcmd.dest.root + 1], subcmd.dest.fields).elem))
       IN IF v.k \in {"invalid", "panic"}
          THEN /\ Return(Panicked)
               /\ UNCHANGED <<roots, wasPresent, log, specs, cmd, curCmd,
                              lastCmd, i>>
          ELSE LET st == captureEnvVars(subcmd.specs, env,
                           [roots |-> SetVal(roots, subcmd.dest, fresh),
                            wasPresent |-> wasPresent,
                            log |-> Append(log, [op |-> "enter", at |-> i,
                                                 cmd |-> subcmd.dest]),
                            err |-> Nil])
               IN /\ roots' = st.roots
                  /\ wasPresent' = st.wasPresent
                  /\ log' = st.log
                  /\ specs' = appendSpecs(cmd, specs, subcmd.specs).specs
                  /\ cmd' = appendSpecs(cmd, specs, subcmd.specs).cmd
                  /\ IF st.err # Nil
                     THEN /\ Return(st.err)
                          /\ UNCHANGED <<curCmd, lastCmd, i>>
                     ELSE /\ curCmd' = subcmd
                          /\ lastCmd' = setLastCmd(subcmd, lastCmd)
                          /\ i' = i + 1
                          /\ UNCHANGED <<err, pc>>
    /\ UNCHANGED <<arrays, paths, prog, types, env, built, buildErrs, args,
                   allpositional, positionals, result>>

\* case "-h", "--help": return ErrHelp; case "--version": return ErrVersion
HelpOrVersion ==
    /\ AtToken
    /\ ReadAsFlag
    /\ IsSpecial
    /\ Return(IF Arg = LongVersion THEN ErrVersion ELSE ErrHelp)
    /\ UNCHANGED <<arrays, paths, prog, types, roots, env, built, cmd, buildErrs, lastCmd,
                   args, curCmd, specs, wasPresent, allpositional,
                   positionals, i, result, log>>

\* findOption returned nil
UnknownArgument ==
    /\ AtToken
    /\ ReadAsFlag
    /\ ~IsSpecial
    /\ findOption(specs, OptOf(Arg)) = 0
    /\ Return([kind |-> "unknown argument", arg |-> Arg])
    /\ UNCHANGED <<arrays, paths, prog, types, roots, env, built, cmd, buildErrs, lastCmd,
                   args, curCmd, specs, wasPresent, allpositional,
                   positionals, i, result, log>>

RECURSIVE Greedy(_, _)
\* how many of the tokens of args after index k (0-based) the loop
\* "for i+1 < len(args) && !isFlag(args[i+1])" takes without a break
Greedy(as, k) ==
    IF k + 1 < Len(as) /\ ~isFlag(as[k + 2]) THEN 1 + Greedy(as, k + 1) ELSE 0

\* the number of tokens a multiple-valued flag at index k takes as values
Taken(as, k, spec, value) ==
    IF value # <<>> THEN 0
    ELSE IF spec.separate
    THEN (IF k + 1 < Len(as) /\ ~isFlag(as[k + 2]) THEN 1 ELSE 0)
    ELSE Greedy(as, k)

\* a flag of a spec with multiple values: the values are collected and
\* handed to setSlice
MultipleFlag ==
    /\ AtToken
    /\ ReadAsFlag
    /\ ~IsSpecial
    /\ findOption(specs, OptOf(Arg)) # 0
    /\ LET spec == specs[findOption(specs, OptOf(Arg))]
           value == ValueOf(Arg)
           n == Taken(args, i, spec, value)
           values == IF value # <<>> THEN <<value>>
                     ELSE SubSeq(args, i + 2, i + 1 + n)
           r == setSlice(spec.typ, val(roots, spec.dest), values, ~spec.separate)
       IN /\ spec.multiple
          /\ wasPresent' = wasPresent \cup {spec}
          /\ IF Panics(val(roots, spec.dest), TRUE)
             THEN /\ Return(Panicked)
                  /\ i' = i + n
                  /\ UNCHANGED <<roots, log>>
             ELSE IF Unresolved(val(roots, spec.dest))
             THEN /\ Return([kind |-> "error processing", arg |-> Arg])
                  /\ i' = i + n
                  /\ UNCHANGED <<roots, log>>
             ELSE /\ roots' = SetVal(roots, spec.dest, r.v)
                  /\ log' = Append(log, [op |-> "flag", at |-> i,
                                         spec |-> spec.dest,
                                         values |-> values, ok |-> r.ok])
                  /\ IF r.ok
                     THEN /\ i' = i + n + 1
                          /\ UNCHANGED <<err, pc>>
                     ELSE /\ Return([kind |-> "error processing", arg |-> Arg])
                          /\ i' = i + n
    /\ UNCHANGED <<arrays, paths, prog, types, env, built, cmd, buildErrs, lastCmd, args,
                   curCmd, specs, allpositional, positionals, result>>

\* a flag of a spec with one value: a boolean without a value is "true",
\* any other spec without a value takes the next token, and the value is
\* handed to parseValue
SingleFlag ==
    /\ AtToken
    /\ ReadAsFlag
    /\ ~IsSpecial
    /\ findOption(specs, OptOf(Arg)) # 0
    /\ LET spec == specs[findOption(specs, OptOf(Arg))]
           given == ValueOf(Arg)
           value == IF spec.boolean /\ given = <<>> THEN TrueText ELSE given
           missing == /\ value = <<>>
                      /\ \/ i + 1 = Len(args)
                         \/ ~nextIsNumeric(spec.typ, args[i + 2]) /\ isFlag(args[i + 2])
           text == IF value = <<>> THEN args[i + 2] ELSE value
           r == parseValue(spec.typ, val(roots, spec.dest), text)
       IN /\ ~spec.multiple
          /\ wasPresent' = wasPresent \cup {spec}
          /\ IF missing
             THEN /\ Return([kind |-> "missing value", arg |-> Arg])
                  /\ UNCHANGED <<roots, log, i>>
             ELSE IF Unresolved(val(roots, spec.dest))
             THEN /\ Return(Panicked)
                  /\ i' = IF value = <<>> THEN i + 1 ELSE i
                  /\ UNCHANGED <<roots, log>>
             ELSE /\ roots' = SetVal(roots, spec.dest, r.v)
                  /\ log' = Append(log, [op |-> "flag", at |-> i,
                                         spec |-> spec.dest,
                                         values |-> <<text>>, ok |-> r.ok])
                  /\ IF r.ok
                     THEN /\ i' = IF value = <<>> THEN i + 2 ELSE i + 1
                          /\ UNCHANGED <<err, pc>>
                     ELSE /\ Return([kind |-> "error processing", arg |-> Arg])
                          /\ i' = IF value = <<>> THEN i + 1 ELSE i
    /\ UNCHANGED <<arrays, paths, prog, types, env, built, cmd, buildErrs, lastCmd, args,
                   curCmd, specs, allpositional, positionals, result>>

RECURSIVE DrainSameValue(_, _)
\* the loop over the positionals with a spec of one value leaving the
\* value it took in the buffer
DrainSameValue(ss, st) ==
    IF ss = <<>> \/ st.err # Nil THEN st
    ELSE LET spec == Head(ss) IN
         IF ~spec.positional THEN DrainSameValue(Tail(ss), st)
         ELSE IF Len(st.positionals) = 0 THEN st
         ELSE LET r == IF spec.multiple
                       THEN setSlice(spec.typ, val(st.roots, spec.dest),
                                     st.positionals, TRUE)
                       ELSE parseValue(spec.typ, val(st.roots, spec.dest),
                                       st.positionals[1])
              IN DrainSameValue(Tail(ss),
                   [roots |-> SetVal(st.roots, spec.dest, r.v),
                    wasPresent |-> st.wasPresent \cup {spec},
                    positionals |-> IF ~r.ok THEN st.positionals
                                    ELSE IF spec.multiple THEN <<>>
                                    ELSE st.positionals,
                    log |-> Append(st.log,
                              [op |-> "positional", spec |-> spec.dest,
                               values |-> IF spec.multiple THEN st.positionals
                                          ELSE <<st.positionals[1]>>,
                               ok |-> r.ok]),
                    err |-> IF r.ok THEN Nil
                            ELSE [kind |-> "error processing", arg |-> spec.long]])

RECURSIVE Drain(_, _)
\* the loop "process positionals" over the specs in scope, on the state
\* st = [roots, wasPresent, positionals, log, err]
Drain(ss, st) ==
    IF ss = <<>> \/ st.err # Nil THEN st
    ELSE LET spec == Head(ss) IN
         IF ~spec.positional THEN Drain(Tail(ss), st)
         ELSE IF Len(st.positionals) = 0 THEN st
         ELSE IF Panics(val(st.roots, spec.dest), spec.multiple)
         THEN [st EXCEPT !.err = Panicked]
         ELSE IF Unresolved(val(st.roots, spec.dest))
         THEN [st EXCEPT !.err = [kind |-> "error processing",
                                  arg |-> spec.long]]
         ELSE LET r == IF spec.multiple
                       THEN setSlice(spec.typ, val(st.roots, spec.dest),
                                     st.positionals, TRUE)
                       ELSE parseValue(spec.typ, val(st.roots, spec.dest),
                                       st.positionals[1])
              IN Drain(Tail(ss),
                   [roots |-> SetVal(st.roots, spec.dest, r.v),
                    wasPresent |-> st.wasPresent \cup {spec},
                    positionals |-> IF ~r.ok THEN st.positionals
                                    ELSE IF spec.multiple THEN <<>>
                                    ELSE Tail(st.positionals),
                    log |-> Append(st.log,
                              [op |-> "positional", spec |-> spec.dest,
                               values |-> IF spec.multiple THEN st.positionals
                                          ELSE <<st.positionals[1]>>,
                               ok |-> r.ok]),
                    err |-> IF r.ok THEN Nil
                            ELSE [kind |-> "error processing", arg |-> spec.long]])

\* after the last token: the buffered positionals are assigned
ProcessPositionals ==
    /\ pc = "loop"
    /\ i >= Len(args)
    /\ LET st == Drain(specs, [roots |-> roots, wasPresent |-> wasPresent,
                               positionals |-> positionals, log |-> log,
                               err |-> Nil])
       IN /\ roots' = st.roots
          /\ wasPresent' = st.wasPresent
          /\ positionals' = st.positionals
          /\ log' = st.log
          /\ IF st.err # Nil THEN Return(st.err)
             ELSE IF Len(st.positionals) > 0
             THEN Return([kind |-> "too many positional arguments",
                          at |-> st.positionals[1]])
             ELSE /\ pc' = "required"
                  /\ UNCHANGED err
    /\ UNCHANGED <<arrays, paths, prog, types, env, built, cmd, buildErrs, lastCmd, args,
                   curCmd, specs, allpositional, i, result>>

\* the name a spec is reported by
ReportName(spec) == IF spec.positional THEN spec.long ELSE Dashes \o spec.long

\* the check of required specs reporting the last absent one
LastAbsent(ss, present) ==
    LET absent == {k \in 1..Len(ss) : ss[k].required /\ ss[k] \notin present}
    IN IF absent = {} THEN 0 ELSE CHOOSE k \in absent : \A h \in absent : k >= h

\* the first spec in scope that is required and was not present, 0 if none
FirstAbsent(ss, present) ==
    LET absent == {k \in 1..Len(ss) : ss[k].required /\ ss[k] \notin present}
    IN IF absent = {} THEN 0 ELSE CHOOSE k \in absent : \A h \in absent : k <= h

\* finally check that all the required args were provided
CheckRequired ==
    /\ pc = "required"
    /\ LET k == FirstAbsent(specs, wasPresent) IN
       Return(IF k = 0 THEN Nil
              ELSE [kind |-> "is required", name |-> ReportName(specs[k])])
    /\ UNCHANGED <<arrays, paths, prog, types, roots, env, built, cmd, buildErrs, lastCmd,
                   args, curCmd, specs, wasPresent, allpositional,
                   positionals, i, result, log>>

RECURSIVE HelpScan(_)
\* the loop of Parse over args: -h or --help before the first "--"
HelpScan(as) ==
    IF as = <<>> THEN FALSE
    ELSE IF Head(as) = ShortHelp \/ Head(as) = LongHelp THEN TRUE
    ELSE IF Head(as) = Dashes THEN FALSE
    ELSE HelpScan(Tail(as))

\* Parse with a scan that does not stop at "--"
ParseResultPastDashes(e, as) ==
    IF e # Nil /\ \E k \in 1..Len(as) : as[k] \in {ShortHelp, LongHelp}
    THEN ErrHelp ELSE e

\* what Parse returns when process returned e
ParseResult(e, as) == IF e # Nil /\ HelpScan(as) THEN ErrHelp ELSE e

\* Parse returns
ParseReturn ==
    /\ pc = "return"
    /\ result' = ParseResult(err, args)
    /\ pc' = "done"
    /\ UNCHANGED <<arrays, paths, prog, types, roots, env, built, cmd, buildErrs, lastCmd,
                   args, curCmd, specs, wasPresent, allpositional,
                   positionals, i, err, log>>

\* the callers that call Parse again on the parser they have
ParsesAgain(p) == p.types = <<PtrT(Shadow)>>

\* Parse has returned and the caller calls it again: the locals of process
\* are gone, the parser and the destinations are as the call left them
ParseAgain ==
    /\ pc = "done"
    /\ ParsesAgain(Programs[prog])
    /\ pc' = "ready"
    /\ args' = <<>>
    /\ curCmd' = NoCmd
    /\ specs' = <<>>
    /\ wasPresent' = {}
    /\ allpositional' = FALSE
    /\ positionals' = <<>>
    /\ i' = 0
    /\ err' = Nil
    /\ result' = Nil
    /\ log' = <<>>
    /\ UNCHANGED <<arrays, paths, prog, types, roots, env, built, cmd, buildErrs, lastCmd>>

Next ==
    \/ NewParserCall
    \/ ProcessStart
    \/ EndOfOptions
    \/ BufferPositional
    \/ InvalidSubcommand
    \/ EnterSubcommand
    \/ HelpOrVersion
    \/ UnknownArgument
    \/ MultipleFlag
    \/ SingleFlag
    \/ ProcessPositionals
    \/ CheckRequired
    \/ ParseReturn
    \/ ParseAgain

Spec == Init /\ [][Next]_vars

----------------------------------------------------------------------------
(***************************************************************************)
(* Vocabulary of the properties.                                           *)
(***************************************************************************)
\* Parse has returned; Parse has returned nil
Returned == pc = "done"
Succeeded == pc = "done" /\ result = Nil

\* the calls of setSlice and parseValue made for a spec from one source
\* ("env", "flag" or "positional"), in order
CallsOf(op, spec) == SelectSeq(log, LAMBDA e : e.op = op /\ e.spec = spec.dest)
Last(seq) == seq[Len(seq)]

RECURSIVE ValuesOf(_)
\* the strings a sequence of calls was given, in order
ValuesOf(calls) ==
    IF calls = <<>> THEN <<>> ELSE Head(calls).values \o ValuesOf(Tail(calls))

RECURSIVE Coerced(_, _)
\* the value of type t that the text s denotes
Coerced(t, s) ==
    CASE t.kind = "ptr" -> PtrTo(Coerced(t.elem, s))
      [] t.kind = "string" -> StringV(s)
      [] t.kind = "int" -> IntV(IntVal(s))
      [] t.kind = "uint" -> UintV(DecimalVal(s))
      [] t.kind = "bool" -> BoolV(s \in TrueLits)

\* the elements of a slice of type t that the texts denote
CoercedAll(t, texts) == [k \in 1..Len(texts) |-> Coerced(t.elem, texts[k])]

\* what the destination of a spec held before Parse: its elements, for a
\* slice the caller pre-populated
InitialElems(spec) ==
    LET v == val(Programs[prog].roots, spec.dest) IN
    IF v.k = "slice" THEN v.v ELSE <<>>

\* the spec declares an environment variable and the environment sets it
EnvSet(spec) == spec.env # <<>> /\ spec.env \in DOMAIN env

\* the specs in scope that are flags
FlagSpecs == {specs[k] : k \in {j \in 1..Len(specs) : ~specs[j].positional}}

----------------------------------------------------------------------------
\* C1 (as stated): after a successful Parse, an option whose environment
\* variable is set and which was also given as a flag holds what the command
\* line gave it and nothing the environment gave it: a single value is the
\* last flag's value, and no element of a multiple value is one of the
\* environment's, with or without separate.  (In the programs above the
\* environment's texts differ from the command line's and the defaults'.)
C1_CliOverridesEnv ==
    Succeeded =>
      \A spec \in FlagSpecs :
        (EnvSet(spec) /\ CallsOf("flag", spec) # <<>>) =>
          IF spec.multiple
          THEN \A j \in 1..Len(val(roots, spec.dest).v) :
                 \A k \in 1..Len(ValuesOf(CallsOf("env", spec))) :
                   val(roots, spec.dest).v[j]
                     # Coerced(spec.typ.elem, ValuesOf(CallsOf("env", spec))[k])
          ELSE val(roots, spec.dest)
                 = Coerced(spec.typ, Last(CallsOf("flag", spec)).values[1])

\* C1 (what the code does): after a successful Parse, an option whose environment
\* variable is set and which was also given as a flag holds: the last
\* flag's value, if it has one value; the values of the last flag
\* occurrence alone, if it has multiple values and is not separate; and, if
\* it is separate, its defaults, then the environment's values, then the
\* values of all its flag occurrences.
C1_CliOverridesEnvUnlessSeparate ==
    Succeeded =>
      \A spec \in FlagSpecs :
        (EnvSet(spec) /\ CallsOf("flag", spec) # <<>>) =>
          IF ~spec.multiple
          THEN val(roots, spec.dest)
                 = Coerced(spec.typ, Last(CallsOf("flag", spec)).values[1])
          ELSE IF ~spec.separate
          THEN val(roots, spec.dest).v
                 = CoercedAll(spec.typ, Last(CallsOf("flag", spec)).values)
          ELSE val(roots, spec.dest).v
                 = InitialElems(spec)
                   \o CoercedAll(spec.typ, ValuesOf(CallsOf("env", spec)))
                   \o CoercedAll(spec.typ, ValuesOf(CallsOf("flag", spec)))

\* C1 (witness): a successful Parse in which a separate option with its
\* environment variable set was given a value by a flag, and so was an
\* option with one value
C1_Witness ==
    /\ Succeeded
    /\ \E spec \in FlagSpecs :
         /\ EnvSet(spec) /\ spec.multiple /\ spec.separate
         /\ ValuesOf(CallsOf("flag", spec)) # <<>>

\* C1 (witness, one value): a successful Parse in which an option with one
\* value was set by the environment and then by a flag
C1_WitnessSingle ==
    /\ Succeeded
    /\ \E spec \in FlagSpecs :
         /\ EnvSet(spec) /\ ~spec.multiple
         /\ CallsOf("flag", spec) # <<>>

----------------------------------------------------------------------------
\* -h or --help occurs in the arguments before the first "--"
HelpBeforeDashes(as) ==
    \E k \in 1..Len(as) :
      /\ as[k] \in {ShortHelp, LongHelp}
      /\ \A j \in 1..(k - 1) : as[j] # Dashes

\* C2: Parse returns ErrHelp whenever -h or --help occurs in args before
\* the first "--", whatever process returned, and otherwise returns exactly
\* what process returned.
C2_HelpSupersedes ==
    Returned =>
      /\ HelpBeforeDashes(args) => result = ErrHelp
      /\ ~HelpBeforeDashes(args) => result = err

\* C2 (witness): process returned an error other than the help request, a
\* help flag stands before the first "--", and Parse returned ErrHelp
C2_Witness ==
    /\ Returned
    /\ HelpBeforeDashes(args)
    /\ err \notin {Nil, ErrHelp}
    /\ result = ErrHelp

----------------------------------------------------------------------------
RECURSIVE Nodes(_)
\* the nodes of the command tree under c, c included
Nodes(c) ==
    {c} \cup UNION {Nodes(c.subcommands[k]) : k \in 1..Len(c.subcommands)}

\* the command was entered in this Parse: it is the root or a subcommand
\* whose name was dispatched
Entered(node) ==
    \/ node = cmd
    \/ \E k \in 1..Len(log) : log[k].op = "enter" /\ log[k].cmd = node.dest

\* the specs of the commands that were not entered
SpecsNotEntered ==
    UNION {{node.specs[k] : k \in 1..Len(node.specs)} :
             node \in {n \in Nodes(cmd) : ~Entered(n)}}

\* the spec was supplied: seeded from the environment, named by a flag or
\* assigned a positional
Supplied(spec) ==
    \E k \in 1..Len(log) :
      log[k].op \in {"env", "flag", "positional"} /\ log[k].spec = spec.dest

\* the spec was given at least one value
GivenValue(spec) ==
    \E k \in 1..Len(log) :
      /\ log[k].op \in {"env", "flag", "positional"}
      /\ log[k].spec = spec.dest
      /\ log[k].values # <<>>

\* the name a required spec is reported by
RequiredName(spec) ==
    IF spec.positional THEN spec.long ELSE <<"-", "-">> \o spec.long

\* the required specs in scope, by index, that were not supplied
Unsupplied == {k \in 1..Len(specs) : specs[k].required /\ ~Supplied(specs[k])}

\* C3 (as stated): Parse returns nil only if every required spec in scope
\* was given a value by the environment, by a flag or by a positional.
C3_RequiredGivenValue ==
    Succeeded =>
      \A k \in 1..Len(specs) : specs[k].required => GivenValue(specs[k])

\* C3 (amended): Parse returns nil only if every required spec in scope was
\* supplied, that is seeded from the environment, named by a flag (even one
\* that collected no value) or assigned a positional; when one was not and
\* no earlier error occurred, Parse fails with "<name> is required" for the
\* first such spec in scope order, --long for a flag and the bare long name
\* for a positional; a required spec of a subcommand that was not entered
\* is never reported.
C3_RequiredSupplied ==
    Returned =>
      /\ Unsupplied = {} => result.kind # "is required"
      /\ Unsupplied # {} =>
           /\ result # Nil
           /\ result.kind = "is required" =>
                \E k \in Unsupplied :
                  /\ \A h \in Unsupplied : k <= h
                  /\ result.name = RequiredName(specs[k])
      /\ result.kind = "is required" =>
           \A spec \in SpecsNotEntered :
             spec.required => result.name # RequiredName(spec)

\* C3 (witness): Parse failed with "is required" while two required specs
\* in scope were not supplied
C3_Witness ==
    /\ Returned
    /\ result.kind = "is required"
    /\ Cardinality(Unsupplied) >= 2

\* C3 (witness, subcommand): a subcommand was entered and its required
\* spec reported
C3_WitnessEntered ==
    /\ Returned
    /\ result.kind = "is required"
    /\ \E k \in 1..Len(log) : log[k].op = "enter"
    /\ \E k \in 1..Len(specs) :
         k > Len(cmd.specs) /\ result.name = RequiredName(specs[k])

\* C3 (witness, not entered): Parse succeeded without entering a
\* subcommand that has a required spec
C3_WitnessNotEntered ==
    /\ Succeeded
    /\ \E spec \in SpecsNotEntered : spec.required

\* C3 (witness, no value): Parse succeeded with a required spec, not
\* separate, that a flag named without a value
C3_WitnessNoValue ==
    /\ Succeeded
    /\ \E k \in 1..Len(specs) :
         /\ specs[k].required /\ ~specs[k].separate
         /\ Supplied(specs[k]) /\ ~GivenValue(specs[k])

----------------------------------------------------------------------------
\* the token is shaped like a flag: it starts with a dash and is not made
\* of dashes alone
FlagShaped(s) ==
    /\ Len(s) > 0
    /\ s[1] = "-"
    /\ \E k \in 1..Len(s) : s[k] # "-"

\* the loop is at a token that is dispatched on the subcommands of the
\* active command
AtDispatch ==
    /\ pc = "loop"
    /\ i < Len(args)
    /\ curCmd.subcommands # <<>>
    /\ args[i + 1] # <<"-", "-">>
    /\ ~FlagShaped(args[i + 1]) \/ allpositional

\* the children of the active command that the token names
ChildrenNamed == {k \in 1..Len(curCmd.subcommands) :
                    curCmd.subcommands[k].name = args[i + 1]}

\* in the next state the record of the child is fresh: allocated, with
\* every field of its own zero but those seeded from the environment
FreshRecord(child) ==
    /\ val(roots', child.dest).k = "ptr"
    /\ ~val(roots', child.dest).nil
    /\ \A k \in 1..Len(child.specs) :
         ~EnvSet(child.specs[k]) =>
           val(roots', child.specs[k].dest) = Zero(child.specs[k].typ)
    /\ \A k \in 1..Len(child.subcommands) :
         val(roots', child.subcommands[k].dest) = NilPtr

\* the child becomes the active command and the token is consumed
Activated(child) ==
    /\ curCmd' = child
    /\ lastCmd' = child
    /\ FreshRecord(child)
    /\ positionals' = positionals
    /\ i' = i + 1
    /\ pc' = "loop"

\* process stops with "invalid subcommand: <token>"
FailsInvalidSubcommand ==
    /\ pc' = "return"
    /\ err' = [kind |-> "invalid subcommand", arg |-> args[i + 1]]
    /\ roots' = roots
    /\ positionals' = positionals
    /\ curCmd' = curCmd

\* process stops with the error of seeding the child from the environment,
\* the record of the child allocated and the active command unchanged
FailsSeeding(child) ==
    /\ pc' = "return"
    /\ err'.kind \in {"error processing environment variable",
                      "error processing environment variable with multiple values",
                      "error reading a CSV string from environment variable"}
    /\ \E k \in 1..Len(child.specs) :
         EnvSet(child.specs[k]) /\ err'.env = child.specs[k].env
    /\ val(roots', child.dest).k = "ptr"
    /\ ~val(roots', child.dest).nil
    /\ positionals' = positionals
    /\ curCmd' = curCmd
    /\ lastCmd' = lastCmd

C4_WitnessSeedingFails ==
    /\ pc = "return"
    /\ err.kind = "error processing environment variable"
    /\ Len(log) >= 2
    /\ log[Len(log) - 1].op = "enter"
    /\ curCmd = cmd

----------------------------------------------------------------------------
\* C5: no command node of a tree that NewParser returned without error,
\* the root assembled from several destinations included, has both a
\* positional spec and a subcommand.
C5_PositionalsExcludeSubcommands ==
    built =>
      \A node \in Nodes(cmd) :
        ~ /\ \E k \in 1..Len(node.specs) : node.specs[k].positional
          /\ node.subcommands # <<>>

----------------------------------------------------------------------------
\* every call made for the spec from the command line so far succeeded
AllOk(spec) ==
    \A k \in 1..Len(CallsOf("flag", spec)) : CallsOf("flag", spec)[k].ok

\* C6: a flag with multiple values whose destination holds defaults (and
\* whose environment variable is unset) holds, once the flag has occurred,
\* the values of all its occurrences so far and none of the defaults: the
\* first occurrence discards the defaults and every later one appends,
\* separate or not.
C6_TruncatesDefaultsOnce ==
    \A spec \in FlagSpecs :
      ( /\ spec.multiple
        /\ InitialElems(spec) # <<>>
        /\ ~EnvSet(spec)
        /\ CallsOf("flag", spec) # <<>>
        /\ AllOk(spec) ) =>
        val(roots, spec.dest).v
          = CoercedAll(spec.typ, ValuesOf(CallsOf("flag", spec)))

----------------------------------------------------------------------------
\* C7: after a successful Parse, a separate flag with multiple values whose
\* destination started empty and whose environment variable is unset took
\* exactly one value at each occurrence, and its destination holds as many
\* elements as the flag occurred, in the order of the command line.
C7_SeparateTakesOne ==
    Succeeded =>
      \A spec \in FlagSpecs :
        (spec.multiple /\ spec.separate /\ InitialElems(spec) = <<>>
           /\ ~EnvSet(spec)) =>
          /\ \A k \in 1..Len(CallsOf("flag", spec)) :
               Len(CallsOf("flag", spec)[k].values) = 1
          /\ Len(val(roots, spec.dest).v) = Len(CallsOf("flag", spec))
          /\ val(roots, spec.dest).v
               = CoercedAll(spec.typ, ValuesOf(CallsOf("flag", spec)))

----------------------------------------------------------------------------
RECURSIVE Pointee(_)
\* the type under the pointers of t
Pointee(t) == IF t.kind = "ptr" THEN Pointee(t.elem) ELSE t

\* the text is a literal of the numeric type under the pointers of t
NumericFor(t, s) ==
    CASE Pointee(t).kind = "int" -> IsIntLit(s)
      [] Pointee(t).kind = "uint" -> IsUintLit(s)
      [] OTHER -> FALSE

\* the loop is at a flag, without a value of its own, of a spec with one
\* value that is not boolean
AtBareSingleFlag ==
    /\ pc = "loop"
    /\ i < Len(args)
    /\ ~allpositional
    /\ FlagShaped(args[i + 1])
    /\ args[i + 1] \notin {ShortHelp, LongHelp, LongVersion}
    /\ ValueOf(args[i + 1]) = <<>>
    /\ findOption(specs, OptOf(args[i + 1])) # 0
    /\ ~specs[findOption(specs, OptOf(args[i + 1]))].multiple
    /\ ~specs[findOption(specs, OptOf(args[i + 1]))].boolean

\* the next token exists and is not flag-shaped or is a number of the type
NextIsValue(spec) ==
    /\ i + 1 < Len(args)
    /\ ~FlagShaped(args[i + 2]) \/ NumericFor(spec.typ, args[i + 2])

\* the next token is handed to the option and, if it parses, stored and
\* skipped
ConsumesNext(spec) ==
    /\ Len(log') = Len(log) + 1
    /\ log'[Len(log')].op = "flag"
    /\ log'[Len(log')].spec = spec.dest
    /\ log'[Len(log')].values = <<args[i + 2]>>
    /\ IF log'[Len(log')].ok
       THEN /\ val(roots', spec.dest) = Coerced(spec.typ, args[i + 2])
            /\ i' = i + 2
            /\ pc' = "loop"
       ELSE /\ pc' = "return"
            /\ err' = [kind |-> "error processing", arg |-> args[i + 1]]

\* process stops with "missing value for <flag>", nothing written and the
\* next token not consumed
FailsMissingValue ==
    /\ pc' = "return"
    /\ err' = [kind |-> "missing value", arg |-> args[i + 1]]
    /\ roots' = roots
    /\ log' = log
    /\ i' = i

\* C8: a flag of a spec with one value, not boolean, that carries no value
\* of its own takes the next token as its value if and only if that token
\* exists and is not flag-shaped or is a literal of the option's numeric
\* type (through pointers); otherwise process stops with "missing value
\* for <flag>", writes nothing and leaves the next token.
C8_NegativeNumbers ==
    [][AtBareSingleFlag =>
         IF NextIsValue(specs[findOption(specs, OptOf(args[i + 1]))])
         THEN ConsumesNext(specs[findOption(specs, OptOf(args[i + 1]))])
         ELSE FailsMissingValue]_vars

\* C8 (witness): a signed integer option holds -5, taken from the token
\* "-5" after its flag
C8_Witness ==
    /\ pc = "loop"
    /\ \E spec \in FlagSpecs :
         /\ spec.typ.kind = "int"
         /\ CallsOf("flag", spec) # <<>>
         /\ Last(CallsOf("flag", spec)).values = << <<"-", "5">> >>
         /\ val(roots, spec.dest) = IntV(0 - 5)

\* C8 (witness, missing value): an unsigned option followed by "-5" stopped
\* process with "missing value"
C8_WitnessMissing ==
    /\ pc = "return"
    /\ err.kind = "missing value"
    /\ i + 1 < Len(args)
    /\ args[i + 2] = <<"-", "5">>
    /\ \E spec \in FlagSpecs :
         /\ Pointee(spec.typ).kind = "uint"
         /\ spec.long = OptOf(args[i + 1])

----------------------------------------------------------------------------
\* the index (from 0) of the first "--" of the arguments, their number if
\* there is none
FirstDashes ==
    IF \E k \in 1..Len(args) : args[k] = <<"-", "-">>
    THEN (CHOOSE k \in 1..Len(args) :
            /\ args[k] = <<"-", "-">>
            /\ \A h \in 1..(k - 1) : args[h] # <<"-", "-">>) - 1
    ELSE Len(args)

\* C9: no "--" is stored as the value of an option or of a positional, and
\* no token after the first "--" is read as a flag or handed to one.
C9_EndOfOptionsMarker ==
    \A k \in 1..Len(log) :
      log[k].op \in {"flag", "positional"} =>
        /\ log[k].ok =>
             \A j \in 1..Len(log[k].values) : log[k].values[j] # <<"-", "-">>
        /\ log[k].op = "flag" => log[k].at < FirstDashes

----------------------------------------------------------------------------
\* the loop is at a token read as a flag that is not a help or version
\* request
AtFlag ==
    /\ pc = "loop"
    /\ i < Len(args)
    /\ ~allpositional
    /\ FlagShaped(args[i + 1])
    /\ args[i + 1] \notin {ShortHelp, LongHelp, LongVersion}

\* the name is the long name or the declared short name of a spec in scope
\* that is not positional
Declared(name) ==
    \E k \in 1..Len(specs) :
      /\ ~specs[k].positional
      /\ \/ specs[k].long = name
         \/ specs[k].short # <<>> /\ specs[k].short = name

\* C10: a token read as a flag whose name, without its dashes and its
\* "=value", is neither the long name nor the declared short name of a spec
\* in scope that is not positional stops process with "unknown argument
\* <token>" and writes to no destination; any other is accepted.
C10_FlagLookup ==
    [][AtFlag =>
         IF Declared(OptOf(args[i + 1]))
         THEN ~(pc' = "return" /\ err'.kind = "unknown argument")
         ELSE /\ pc' = "return"
              /\ err' = [kind |-> "unknown argument", arg |-> args[i + 1]]
              /\ roots' = roots
              /\ log' = log]_vars

----------------------------------------------------------------------------
\* the positional specs in scope, in scope order
PositionalSpecs == SelectSeq(specs, LAMBDA s : s.positional)

RECURSIVE Shares(_, _)
\* the share of the buffered values buf each positional spec of ps gets: a
\* spec with one value the next value, a spec with multiple values all that
\* remain; a spec reached with nothing left gets none
Shares(ps, buf) ==
    IF ps = <<>> \/ buf = <<>> THEN <<>>
    ELSE IF Head(ps).multiple
    THEN << [spec |-> Head(ps), values |-> buf] >>
    ELSE << [spec |-> Head(ps), values |-> << buf[1] >>] >>
         \o Shares(Tail(ps), Tail(buf))

RECURSIVE Leftover(_, _)
\* the buffered values no spec of ps gets
Leftover(ps, buf) ==
    IF buf = <<>> THEN <<>>
    ELSE IF ps = <<>> THEN buf
    ELSE IF Head(ps).multiple THEN <<>>
    ELSE Leftover(Tail(ps), Tail(buf))

\* the text denotes a value of type t
Coercible(t, s) ==
    CASE Pointee(t).kind = "string" -> TRUE
      [] Pointee(t).kind = "int" -> IsIntLit(s)
      [] Pointee(t).kind = "uint" -> IsUintLit(s)
      [] Pointee(t).kind = "bool" -> s \in TrueLits \cup FalseLits
      [] OTHER -> FALSE

\* every value of the share denotes a value of its spec's type
ShareCoercible(share) ==
    \A k \in 1..Len(share.values) :
      Coercible(IF share.spec.multiple THEN share.spec.typ.elem
                ELSE share.spec.typ, share.values[k])

\* in the next state the destination of the share's spec holds its values
ShareStored(share) ==
    /\ ShareCoercible(share)
    /\ IF share.spec.multiple
       THEN val(roots', share.spec.dest).v
              = CoercedAll(share.spec.typ, share.values)
       ELSE val(roots', share.spec.dest)
              = Coerced(share.spec.typ, share.values[1])

\* the shares say where every buffered value goes: together they are the
\* buffer without what is left over, and no spec has two
SharesExact(shares, buf, left) ==
    /\ ValuesOf(shares) \o left = buf
    /\ \A j, k \in 1..Len(shares) : j # k => shares[j].spec # shares[k].spec

\* the positional specs in scope that get no share keep what they hold
NoShareUnchanged(shares) ==
    \A k \in 1..Len(PositionalSpecs) :
      (\A j \in 1..Len(shares) : shares[j].spec # PositionalSpecs[k]) =>
        val(roots', PositionalSpecs[k].dest) = val(roots, PositionalSpecs[k].dest)

\* the loop over the arguments has ended
TokensExhausted == pc = "loop" /\ i >= Len(args)

\* C11 (as stated): after the last token the buffered values are assigned
\* to the positional specs in scope in declaration order, one to a spec
\* with one value and all that remain to a spec with multiple values; if
\* values are left over process stops with "too many positional arguments"
\* naming the first of them, and otherwise every buffered value is in
\* exactly one destination.
C11_Draining ==
    [][TokensExhausted =>
         /\ SharesExact(Shares(PositionalSpecs, positionals), positionals,
                        Leftover(PositionalSpecs, positionals))
         /\ IF Leftover(PositionalSpecs, positionals) # <<>>
            THEN /\ pc' = "return"
                 /\ err' = [kind |-> "too many positional arguments",
                            at |-> Leftover(PositionalSpecs, positionals)[1]]
            ELSE /\ pc' = "required"
                 /\ \A k \in 1..Len(Shares(PositionalSpecs, positionals)) :
                      ShareStored(Shares(PositionalSpecs, positionals)[k])
                 /\ NoShareUnchanged(Shares(PositionalSpecs, positionals))]_vars

\* the shares whose values do not all denote values of the spec's type
Uncoercible(shares) == {k \in 1..Len(shares) : ~ShareCoercible(shares[k])}

\* C11 (amended): as above, provided every value denotes a value of the
\* type of the spec it is assigned to; at the first spec, in declaration
\* order, that is assigned a value which does not, process stops with
\* "error processing <name>", whatever is left over, the specs before it
\* holding their values.
C11_DrainingUnlessCoercionFails ==
    [][TokensExhausted =>
         LET shares == Shares(PositionalSpecs, positionals)
             left == Leftover(PositionalSpecs, positionals)
         IN /\ SharesExact(shares, positionals, left)
            /\ IF Uncoercible(shares) # {}
               THEN \E k \in Uncoercible(shares) :
                      /\ \A h \in Uncoercible(shares) : k <= h
                      /\ pc' = "return"
                      /\ err' = [kind |-> "error processing",
                                 arg |-> shares[k].spec.long]
                      /\ \A h \in 1..(k - 1) : ShareStored(shares[h])
               ELSE IF left # <<>>
               THEN /\ pc' = "return"
                    /\ err' = [kind |-> "too many positional arguments",
                               at |-> left[1]]
                    /\ \A k \in 1..Len(shares) : ShareStored(shares[k])
               ELSE /\ pc' = "required"
                    /\ \A k \in 1..Len(shares) : ShareStored(shares[k])
                    /\ NoShareUnchanged(shares)]_vars

\* C11 (witness): two positional specs took a value each and a third value
\* was left over
C11_Witness ==
    /\ pc = "return"
    /\ err.kind = "too many positional arguments"
    /\ Len(args) = 3
    /\ err.at = args[3]
    /\ Len(PositionalSpecs) = 2
    /\ val(roots, PositionalSpecs[1].dest) = Coerced(PositionalSpecs[1].typ, args[1])
    /\ val(roots, PositionalSpecs[2].dest) = Coerced(PositionalSpecs[2].typ, args[2])

\* C11 (witness, multiple): a spec with one value took the first buffered
\* value and a spec with multiple values the two that remained
C11_WitnessMultiple ==
    /\ pc = "required"
    /\ Len(args) = 3
    /\ Len(PositionalSpecs) = 2
    /\ PositionalSpecs[2].multiple
    /\ Len(val(roots, PositionalSpecs[2].dest).v) = 2

\* C11 (witness, coercion): a value that is no integer stopped process
\* while another value was left over
C11_WitnessCoercion ==
    /\ pc = "return"
    /\ err.kind = "error processing"
    /\ Len(PositionalSpecs) = 2
    /\ Len(positionals) = 3
    /\ ~IsIntLit(positionals[1])
    /\ PositionalSpecs[1].typ.kind = "int"

----------------------------------------------------------------------------
\* the keys of a field's tag, without their values
TagKeys(f) == {KeyOf(f.tag[k]) : k \in 1..Len(f.tag)}

\* the field is ignored; the field is an embedded struct, expanded in place
IsIgnored(f) == f.tag = << <<"-">> >>
IsEmbedded(f) == f.anonymous /\ f.typ.kind = "struct"

\* what can be wrong with a field
ManyHyphens(f) ==
    \E key \in TagKeys(f) :
      Len(key) >= 3 /\ key[1] = "-" /\ key[2] = "-" /\ key[3] = "-"
LongShort(f) ==
    \E key \in TagKeys(f) :
      /\ Len(key) >= 1 /\ key[1] = "-"
      /\ Len(key) = 1 \/ key[2] # "-"
      /\ Len(key) # 2
BadKey(f) ==
    \E key \in TagKeys(f) :
      /\ key # <<>> => key[1] # "-"
      /\ key \notin {KeyRequired, KeyPositional, KeySeparate, KeyHelp,
                     KeyEnv, KeySubcommand}
IsSubcommand(f) == KeySubcommand \in TagKeys(f)
BadSubcommand(f) ==
    IsSubcommand(f) /\ ~(f.typ.kind = "ptr" /\ f.typ.elem.kind = "struct")
Inadmissible(f) == ~IsSubcommand(f) /\ ~canParse(f.typ).parseable

\* the field is offending
Offending(f) ==
    ManyHyphens(f) \/ LongShort(f) \/ BadKey(f) \/ BadSubcommand(f)
      \/ Inadmissible(f)

RECURSIVE LevelFields(_)
\* the fields of one record level with the struct that declares each:
\* ignored fields left out, embedded structs expanded in place
LevelFields(t) ==
    UNION {IF IsIgnored(t.fields[k]) THEN {}
           ELSE IF IsEmbedded(t.fields[k]) THEN LevelFields(t.fields[k].typ)
           ELSE {[owner |-> t.name, field |-> t.fields[k]]} :
           k \in 1..Len(t.fields)}

\* the error was recorded for the field x of the record at path dest
Reports(e, x, dest) ==
    \/ /\ e.kind \in {"too many hyphens",
                      "short arguments must be one character only",
                      "fields are not supported"}
       /\ e.owner = x.owner
       /\ e.field = x.field.name
    \/ /\ e.kind = "unrecognized tag"
       /\ e.tag = x.field.tag
       /\ e.key \in TagKeys(x.field)
    \/ /\ e.kind = "subcommand"
       /\ IsSubcommand(x.field)
       /\ \E k \in 1..Len(e.errs) :
            /\ e.errs[k].kind = "subcommands must be pointers to structs"
            /\ e.errs[k].dest = [root |-> dest.root,
                                 fields |-> Append(dest.fields, x.field.name)]

\* NewParser has returned
Constructed == pc # "new"

\* the destinations before the d-th were built without error
EarlierBuilt(d) ==
    \A h \in 1..(d - 1) :
      cmdFromStruct(ProgramName, [root |-> h - 1, fields |-> <<>>], types[h]).ok

\* C12: when the record of the destination cmdFromStruct is called for has
\* offending fields (bad tag key, short name of more than one character,
\* three or more dashes, unsupported type, subcommand that is no pointer to
\* a struct), an error is recorded for every one of them at that record
\* level, not for the first alone, and no command is returned.
C12_ErrorsAccumulated ==
    Constructed =>
      \A d \in 1..Len(types) :
        (EarlierBuilt(d)
           /\ \E x \in LevelFields(types[d].elem) : Offending(x.field)) =>
          /\ ~built
          /\ cmd = NoCmd
          /\ \A x \in LevelFields(types[d].elem) :
               Offending(x.field) =>
                 \E k \in 1..Len(buildErrs) :
                   Reports(buildErrs[k], x, [root |-> d - 1, fields |-> <<>>])

\* C12 (witness): NewParser failed on a record with five offending fields,
\* one of each sort
C12_Witness ==
    /\ pc = "failed"
    /\ Len(buildErrs) = 5
    /\ \E x \in LevelFields(types[1].elem) : BadKey(x.field)
    /\ \E x \in LevelFields(types[1].elem) : LongShort(x.field)
    /\ \E x \in LevelFields(types[1].elem) : ManyHyphens(x.field)
    /\ \E x \in LevelFields(types[1].elem) : Inadmissible(x.field)
    /\ \E x \in LevelFields(types[1].elem) : BadSubcommand(x.field)

----------------------------------------------------------------------------
\* a key of the field's tag makes the visitor return before it is through
Stopping(f) == LongShort(f) \/ BadKey(f)

RECURSIVE Reach(_, _)
\* the fields of a shape that are not ignored: those of the record level
\* of struct t and those of the records of its subcommands.  clear says
\* that no subcommand field on the way has a stopping key in its tag
Reach(t, clear) ==
    UNION {IF IsIgnored(t.fields[k]) THEN {}
           ELSE IF IsEmbedded(t.fields[k])
           THEN Reach(t.fields[k].typ, clear)
           ELSE IF IsSubcommand(t.fields[k])
           THEN (IF BadSubcommand(t.fields[k]) THEN {}
                 ELSE Reach(t.fields[k].typ.elem,
                            clear /\ ~Stopping(t.fields[k])))
           ELSE {[owner |-> t.name, field |-> t.fields[k], clear |-> clear]} :
           k \in 1..Len(t.fields)}

RECURSIVE Names(_, _, _)
\* one of the errors, or of the errors of a subcommand among them, names
\* the field of that struct
Names(errs, owner, name) ==
    \E k \in 1..Len(errs) :
      \/ /\ errs[k].kind \in {"too many hyphens",
                              "short arguments must be one character only",
                              "fields are not supported"}
         /\ errs[k].owner = owner
         /\ errs[k].field = name
      \/ /\ errs[k].kind = "subcommand"
         /\ Names(errs[k].errs, owner, name)

\* C13 (as stated): for every shape with a field, not ignored, of an
\* inadmissible type, at the top level, in an embedded record or in the
\* record of a subcommand, NewParser fails, before any argument is looked
\* at, with an error that names the field.
C13_InadmissibleNamed ==
    Constructed =>
      \A d \in 1..Len(types) :
        \A x \in Reach(types[d].elem, TRUE) :
          Inadmissible(x.field) =>
            /\ ~built
            /\ pc = "failed"
            /\ Names(buildErrs, x.owner, x.field.name)

\* C13 (what the code does): for every such shape NewParser fails before
\* any argument is looked at; an error names the field if the field is in
\* the first destination that has an error, its tag holds no unrecognized
\* key (the error for such a key quotes the key and the tag, not the field)
\* and no subcommand field on the way to it has a key that stops the visitor.
C13_InadmissibleFails ==
    Constructed =>
      \A d \in 1..Len(types) :
        \A x \in Reach(types[d].elem, TRUE) :
          (Inadmissible(x.field) /\ x.clear) =>
            /\ ~built
            /\ pc = "failed"
            /\ (EarlierBuilt(d) /\ ~BadKey(x.field)) =>
                 Names(buildErrs, x.owner, x.field.name)

\* C13 (witness): NewParser failed naming a field of an embedded record
\* and a field of the record of a subcommand
C13_Witness ==
    /\ pc = "failed"
    /\ \E x, y \in Reach(types[1].elem, TRUE) :
         /\ x.owner # types[1].elem.name
         /\ y.owner # types[1].elem.name
         /\ x.owner # y.owner
         /\ Inadmissible(x.field) /\ Inadmissible(y.field)
         /\ Names(buildErrs, x.owner, x.field.name)
         /\ Names(buildErrs, y.owner, y.field.name)
         /\ \E k \in 1..Len(buildErrs) : buildErrs[k].kind = "subcommand"

----------------------------------------------------------------------------
\* the loop is at a token "--version", not in all-positional mode
AtVersion ==
    /\ pc = "loop"
    /\ i < Len(args)
    /\ ~allpositional
    /\ args[i + 1] = <<"-", "-", "v", "e", "r", "s", "i", "o", "n">>

\* process stops at the token, with the version request, and stores nothing
StopsWithVersion ==
    /\ pc' = "return"
    /\ err' = ErrVersion
    /\ i' = i
    /\ roots' = roots
    /\ wasPresent' = wasPresent

\* process has returned the version request and Parse is about to return
VersionRequested == pc = "return" /\ err = ErrVersion

\* C14 (as stated): at "--version" outside all-positional mode process
\* stops at once, Parse returns ErrVersion, and no token after it changes
\* the outcome or a destination field.
C14_VersionShortCircuit ==
    [][/\ AtVersion => StopsWithVersion
       /\ VersionRequested =>
            /\ pc' = "done"
            /\ roots' = roots
            /\ result' = ErrVersion]_vars

\* C14 (amended): at "--version" outside all-positional mode process stops
\* at once and no token after it changes a destination field; Parse returns
\* ErrVersion unless -h or --help stands in args before the first "--"
\* (then after the "--version" token), in which case it returns ErrHelp.
C14_VersionUnlessHelp ==
    [][/\ AtVersion => StopsWithVersion
       /\ VersionRequested =>
            /\ pc' = "done"
            /\ roots' = roots
            /\ result' = IF HelpBeforeDashes(args) THEN ErrHelp
                         ELSE ErrVersion]_vars

\* C14 (witness): Parse returned ErrVersion with tokens left after the
\* "--version" that process stopped at
C14_Witness ==
    /\ Returned
    /\ err = ErrVersion
    /\ result = ErrVersion
    /\ i + 1 < Len(args)
    /\ args[i + 1] = LongVersion

\* C14 (witness): a help flag after "--version" turned the outcome into
\* ErrHelp
C14_WitnessHelp ==
    /\ Returned
    /\ err = ErrVersion
    /\ result = ErrHelp
    /\ \E k \in (i + 2)..Len(args) : args[k] \in {ShortHelp, LongHelp}

----------------------------------------------------------------------------
RECURSIVE ChainsFrom(_)
\* the chains of commands that start at c and go down the tree
ChainsFrom(c) ==
    {<<c>>} \cup
      UNION {{<<c>> \o ch : ch \in ChainsFrom(c.subcommands[k])} :
             k \in 1..Len(c.subcommands)}

RECURSIVE SpecsAlong(_)
\* the specs of the commands of a chain, one command after the other
SpecsAlong(ch) ==
    IF ch = <<>> THEN <<>> ELSE Head(ch).specs \o SpecsAlong(Tail(ch))

\* the subcommands entered so far, in order of entry
EnteredDests ==
    LET es == SelectSeq(log, LAMBDA e : e.op = "enter")
    IN [k \in 1..Len(es) |-> es[k].cmd]

\* process is at the head of its loop or at the check of required options
InProcess == pc \in {"loop", "required"}

\* the specs in scope are those of the chain from the root to the active
\* command, the subcommands in order of entry, each command's list once
ScopeIsChain ==
    \E ch \in ChainsFrom(cmd) :
      /\ ch[Len(ch)] = curCmd
      /\ specs = SpecsAlong(ch)
      /\ EnteredDests = [k \in 1..(Len(ch) - 1) |-> ch[k + 1].dest]
      /\ \A j, k \in 1..Len(ch) : j # k => ch[j].dest # ch[k].dest

\* the spec is not positional and declares the name, long or short
Declares(spec, name) ==
    /\ ~spec.positional
    /\ name # <<>>
    /\ spec.long = name \/ spec.short = name

\* the root specs that declare the name
RootDeclaring(name) ==
    {k \in 1..Len(cmd.specs) : Declares(cmd.specs[k], name)}

\* the name is declared by a spec of a subcommand that was entered and by
\* no spec of the root
InEnteredSubcommand(name) ==
    /\ RootDeclaring(name) = {}
    /\ \E k \in (Len(cmd.specs) + 1)..Len(specs) : Declares(specs[k], name)

\* the name is declared by a spec of a subcommand that was not entered and
\* by no spec in scope
OnlyInSubcommandAhead(name) ==
    /\ \A k \in 1..Len(specs) : ~Declares(specs[k], name)
    /\ \E s \in SpecsNotEntered : Declares(s, name)

\* the flag is not reported as unknown, and what it stores is logged for a
\* spec at one of the given paths
AcceptedFor(dests) ==
    /\ ~(pc' = "return" /\ err'.kind = "unknown argument")
    /\ log' # log =>
         /\ Len(log') = Len(log) + 1
         /\ log'[Len(log')].op = "flag"
         /\ log'[Len(log')].spec \in dests

\* C15: at every step of process the specs in scope are the root's followed
\* by those of each subcommand on the chain to the active command, in
\* order of entry, each once; so a flag of a subcommand alone is an
\* "unknown argument" before the subcommand's name and accepted after it,
\* and a name shared by a root option and a subcommand option resolves to
\* the root option.
C15_ScopeIsChain ==
    [][/\ InProcess' => ScopeIsChain'
       /\ (AtFlag /\ OnlyInSubcommandAhead(OptOf(args[i + 1]))) =>
            /\ pc' = "return"
            /\ err' = [kind |-> "unknown argument", arg |-> args[i + 1]]
            /\ roots' = roots
       /\ (AtFlag /\ InEnteredSubcommand(OptOf(args[i + 1]))) =>
            AcceptedFor({specs[k].dest :
                           k \in (Len(cmd.specs) + 1)..Len(specs)})
       /\ (AtFlag /\ RootDeclaring(OptOf(args[i + 1])) # {}) =>
            AcceptedFor({cmd.specs[k].dest :
                           k \in RootDeclaring(OptOf(args[i + 1]))})]_vars

\* C15 (witness): after a subcommand that declares --m was entered, --m
\* stored its value in the root's option of that name
C15_Witness ==
    /\ InProcess
    /\ Len(log) >= 2
    /\ log[Len(log) - 1].op = "enter"
    /\ log[Len(log)].op = "flag"
    /\ log[Len(log)].ok
    /\ \E r \in 1..Len(cmd.specs) :
         /\ log[Len(log)].spec = cmd.specs[r].dest
         /\ \E k \in (Len(cmd.specs) + 1)..Len(specs) :
              /\ ~specs[k].positional
              /\ specs[k].long = cmd.specs[r].long

\* C15 (witness): a flag of the subcommand alone was rejected before the
\* subcommand's name and, in another run, accepted after it
C15_WitnessBefore ==
    /\ Returned
    /\ err.kind = "unknown argument"
    /\ EnteredDests = <<>>
    /\ \E s \in SpecsNotEntered : Declares(s, OptOf(err.arg))
    /\ \E k \in 1..Len(args) : k > i + 1 /\ args[k] = <<"c">>
C15_WitnessAfter ==
    /\ InProcess
    /\ Len(log) >= 2
    /\ log[Len(log) - 1].op = "enter"
    /\ log[Len(log)].op = "flag"
    /\ log[Len(log)].ok
    /\ \E k \in (Len(cmd.specs) + 1)..Len(specs) :
         /\ log[Len(log)].spec = specs[k].dest
         /\ RootDeclaring(specs[k].long) = {}

----------------------------------------------------------------------------
\* the step enters a subcommand: its record is allocated and its options
\* are seeded
Entering ==
    /\ AtDispatch
    /\ Len(log') > Len(log)
    /\ log'[Len(log) + 1].op = "enter"

\* what the step added to the log
Added == [k \in 1..(Len(log') - Len(log)) |-> log'[Len(log) + k]]

\* the subcommand the step enters
EnteredCommand ==
    CHOOSE c \in {curCmd.subcommands[k] : k \in 1..Len(curCmd.subcommands)} :
      c.dest = log'[Len(log) + 1].cmd

\* C16: entering a subcommand seeds that subcommand's own options only:
\* the value and the presence mark of every option in scope before the
\* subcommand's name are what they were, whatever its environment variable.
C16_EntryLeavesScope ==
    [][Entering =>
         /\ \A k \in 1..Len(specs) :
              /\ val(roots', specs[k].dest) = val(roots, specs[k].dest)
              /\ (specs[k] \in wasPresent') = (specs[k] \in wasPresent)
         /\ \A k \in 2..Len(Added) :
              /\ Added[k].op = "env"
              /\ \E j \in 1..Len(EnteredCommand.specs) :
                   Added[k].spec = EnteredCommand.specs[j].dest]_vars

\* C16 (witness): a root option whose variable is set was given another
\* value on the command line; then a subcommand was entered and seeded its
\* own option from that variable, and the root option holds the command
\* line's value and is marked present
C16_Witness ==
    /\ InProcess
    /\ \E r \in 1..Len(cmd.specs) :
         /\ EnvSet(cmd.specs[r])
         /\ cmd.specs[r] \in wasPresent
         /\ \E j, k \in 1..Len(log) :
              /\ j < k /\ k < Len(log)
              /\ log[j].op = "flag" /\ log[j].ok
              /\ log[j].spec = cmd.specs[r].dest
              /\ log[j].values # <<env[cmd.specs[r].env]>>
              /\ log[k].op = "enter"
              /\ log[Len(log)].op = "env"
              /\ log[Len(log)].values = <<env[cmd.specs[r].env]>>
              /\ val(roots, cmd.specs[r].dest) =
                   Coerced(cmd.specs[r].typ, log[j].values[1])

----------------------------------------------------------------------------
\* a Parse before this one entered a subcommand: its record is allocated,
\* was not when the parser was made, and this Parse entered nothing
EnteredBefore ==
    /\ EnteredDests = <<>>
    /\ \E node \in Nodes(cmd) :
         /\ node # cmd
         /\ val(Programs[prog].roots, node.dest).nil
         /\ ~val(roots, node.dest).nil

\* C17: once NewParser has built the tree no step of any Parse changes it,
\* however many calls are made and whether they succeed or fail: the names,
\* the lists of specs and of subcommands and the fields of the specs stay
\* what they were; entering a subcommand makes the list in scope longer
\* and the root's own list no longer, and presence is kept in the map of
\* the call.
C17_TreeUnchanged ==
    [][/\ Constructed => cmd' = cmd
       /\ Entering =>
            /\ specs' = specs \o EnteredCommand.specs
            /\ cmd'.specs = cmd.specs
       /\ pc' = "ready" => wasPresent' = {}]_vars

\* C17 (witness): a second Parse on the parser has returned, after a first
\* that entered a subcommand, and the root's list is shorter than the list
\* that was in scope
C17_Witness ==
    /\ Returned
    /\ built
    /\ EnteredBefore
    /\ lastCmd = cmd

\* C17 (witness): a Parse that entered a subcommand failed, and the list in
\* scope is longer than the root's
C17_WitnessFailed ==
    /\ Returned
    /\ result # Nil
    /\ EnteredDests # <<>>
    /\ Len(specs) > Len(cmd.specs)

----------------------------------------------------------------------------
\* the token holds a "="; the text after the first one
HasEquals(tok) == \E k \in 1..Len(tok) : tok[k] = "="
InlineText(tok) ==
    LET first == CHOOSE k \in 1..Len(tok) :
                   tok[k] = "=" /\ \A h \in 1..(k - 1) : tok[h] # "="
    IN SubSeq(tok, first + 1, Len(tok))

\* the loop is at a flag with "=" in it whose name a spec in scope declares
AtInlineFlag ==
    /\ AtFlag
    /\ HasEquals(args[i + 1])
    /\ Declared(OptOf(args[i + 1]))

\* the step hands the text after "=" to the option, that text alone, and
\* passes over no token but the flag
TakesInlineText ==
    /\ Len(log') = Len(log) + 1
    /\ SubSeq(log', 1, Len(log)) = log
    /\ log'[Len(log')].op = "flag"
    /\ log'[Len(log')].at = i
    /\ log'[Len(log')].values = <<InlineText(args[i + 1])>>
    /\ i' \in {i, i + 1}
    /\ pc' = "return" => (err'.kind = "error processing" /\ i' = i)

\* C18 (as stated): the text after the first "=" of a flag token is the
\* option's value, an empty text too, and no token after the flag is taken
\* as its value.
C18_InlineValues ==
    [][AtInlineFlag => TakesInlineText]_vars

\* C18 (what the code does): so it is when the text after "=" is not empty;
\* a flag that ends in "=" is read as the flag without it.
C18_InlineValuesNotEmpty ==
    [][(AtInlineFlag /\ InlineText(args[i + 1]) # <<>>) =>
         TakesInlineText]_vars

\* C18 (witness): --s=7 stored 7 and the token after it was read on its own
C18_Witness ==
    /\ InProcess
    /\ Len(log) >= 2
    /\ log[Len(log) - 1].op = "flag"
    /\ log[Len(log)].op = "flag"
    /\ HasEquals(args[log[Len(log) - 1].at + 1])
    /\ log[Len(log) - 1].values = <<InlineText(args[log[Len(log) - 1].at + 1])>>
    /\ log[Len(log) - 1].ok
    /\ log[Len(log)].at = log[Len(log) - 1].at + 1

\* C18 (witness): --s= took the token after it as its value
C18_WitnessEmpty ==
    /\ InProcess
    /\ Len(log) >= 1
    /\ log[Len(log)].op = "flag"
    /\ HasEquals(args[log[Len(log)].at + 1])
    /\ InlineText(args[log[Len(log)].at + 1]) = <<>>
    /\ log[Len(log)].values = <<args[log[Len(log)].at + 2]>>
    /\ i = log[Len(log)].at + 2

----------------------------------------------------------------------------
\* process panicked
HasPanicked == pc = "panic"

\* the paths process can resolve at its next step: those of the specs in
\* scope and of the subcommands of the active command
PathsInReach ==
    {specs[k].dest : k \in 1..Len(specs)}
      \cup {curCmd.subcommands[k].dest : k \in 1..Len(curCmd.subcommands)}

\* val finds a location at the end of the path
Resolves(dest) == val(roots, dest).k \notin {"invalid", "panic"}

\* two structs embedded in the struct promote a field of the same name
\* that the struct does not declare itself
Ambiguous(t) ==
    \E j, k \in 1..Len(t.fields) :
      /\ j # k
      /\ IsEmbedded(t.fields[j]) /\ IsEmbedded(t.fields[k])
      /\ \E n \in FieldNames(t.fields[j].typ) \cap FieldNames(t.fields[k].typ) :
           n \notin FieldNames(t)

\* C19 (as stated): during a parse every path process or captureEnvVars
\* resolves, of a spec in scope or of a subcommand of the active command,
\* leads to a location: val returns neither the zero Value nor panics, so
\* process never panics.
C19_PathsResolve ==
    /\ ~HasPanicked
    /\ pc = "loop" => \A dest \in PathsInReach : Resolves(dest)

\* C19 (what the code does): so it is unless two embedded structs of a
\* destination promote a field of the same name.
C19_PathsResolveUnlessAmbiguous ==
    (\A d \in 1..Len(types) : ~Ambiguous(types[d].elem)) => C19_PathsResolve

\* C19 (witness): an option of a subcommand was set by a flag after the
\* subcommand's record was allocated on entry
C19_Witness ==
    /\ pc = "loop"
    /\ Len(log) >= 2
    /\ log[Len(log) - 1].op = "enter"
    /\ log[Len(log)].op = "flag"
    /\ log[Len(log)].ok
    /\ Len(log[Len(log)].spec.fields) = 2
    /\ SubSeq(log[Len(log)].spec.fields, 1, 1) = log[Len(log) - 1].cmd.fields

\* C19 (witness): process panicked resolving the path of an option
C19_WitnessPanic ==
    /\ HasPanicked
    /\ \E k \in 1..Len(specs) :
         /\ specs[k].long = OptOf(args[i + 1])
         /\ ~Resolves(specs[k].dest)

----------------------------------------------------------------------------
(***************************************************************************)
(* path.Child on the storage of the field chains.  A chain is a slice: a   *)
(* backing array (arrays[arr], as long as the slice's capacity; arr = 0    *)
(* for the nil slice), of which the first len elements are the chain.      *)
(***************************************************************************)
MaxPaths == 5

\* the names Child is called with, and the roots of the paths it starts from
ChildNames == {<<"A">>, <<"B">>}
RootIndexes == {0, 1}

\* cap(s) and the elements of a slice s on the arrays h
Cap(h, s) == IF s.arr = 0 THEN 0 ELSE Len(h[s.arr])
Elems(h, s) == IF s.arr = 0 THEN <<>> ELSE SubSeq(h[s.arr], 1, s.len)

\* the capacities append may give the array it allocates for a slice of
\* capacity c that is to hold n elements
Grown(c, n) == n..(IF 2 * c > n THEN 2 * c ELSE n)

\* append(s, x): in place where the capacity allows, else into a new array
\* of capacity newcap; the arrays afterwards and the slice returned
goAppend(h, s, x, newcap) ==
    IF s.len < Cap(h, s)
    THEN [arrays |-> [h EXCEPT ![s.arr][s.len + 1] = x],
          arr |-> s.arr, len |-> s.len + 1]
    ELSE [arrays |-> Append(h, Elems(h, s) \o <<x>>
                                 \o [j \in 1..(newcap - s.len - 1) |-> <<>>]),
          arr |-> Len(h) + 1, len |-> s.len + 1]

\* a Child that returns what append returned, without the copy
ChildShared(h, p, child, newcap) ==
    LET t == goAppend(h, p, child, newcap)
    IN [arrays |-> t.arrays,
        path |-> [root |-> p.root, arr |-> t.arr, len |-> t.len]]

\* p.Child(child): subfields is made with len(p.fields)+1 elements and the
\* result of append(p.fields, child) copied into it; an array append
\* allocated is garbage afterwards
ChildOnArrays(h, p, child, newcap) ==
    LET t == goAppend(h, p, child, newcap)
        kept == IF t.arr = p.arr THEN t.arrays ELSE h
    IN [arrays |-> Append(kept, Elems(t.arrays, t)),
        path |-> [root |-> p.root, arr |-> Len(kept) + 1, len |-> p.len + 1]]

\* the builder starts from path{root: i}, whose chain is nil
PathInit ==
    /\ prog = 1
    /\ types = Programs[1].types
    /\ roots = Programs[1].roots
    /\ env = NoEnv
    /\ built = FALSE
    /\ cmd = NoCmd
    /\ buildErrs = <<>>
    /\ lastCmd = NoCmd
    /\ args = <<>>
    /\ curCmd = NoCmd
    /\ specs = <<>>
    /\ wasPresent = {}
    /\ allpositional = FALSE
    /\ positionals = <<>>
    /\ i = 0
    /\ err = Nil
    /\ result = Nil
    /\ pc = "paths"
    /\ log = <<>>
    /\ arrays = <<>>
    /\ \E r \in RootIndexes : paths = <<[root |-> r, arr |-> 0, len |-> 0]>>

\* Child is called on one of the paths made so far
ChildCall ==
    /\ pc = "paths"
    /\ Len(paths) < MaxPaths
    /\ \E k \in 1..Len(paths), child \in ChildNames :
         \E newcap \in Grown(Cap(arrays, paths[k]), paths[k].len + 1) :
           LET r == ChildOnArrays(arrays, paths[k], child, newcap)
           IN /\ arrays' = r.arrays
              /\ paths' = Append(paths, r.path)
    /\ UNCHANGED <<prog, types, roots, env, built, cmd, buildErrs, lastCmd,
                   args, curCmd, specs, wasPresent, allpositional,
                   positionals, i, err, result, pc, log>>

PathNext == ChildCall

PathSpec == PathInit /\ [][PathNext]_vars

----------------------------------------------------------------------------
\* the chain of a path as it reads now and after the step
Chain(p) == Elems(arrays, p)
ChainAfter(p) == Elems(arrays', p)

\* C20: a call of Child leaves the root and the chain of its receiver and
\* of every path made before what they were, returns the receiver's root
\* and chain with the one name appended, and the chains of no two paths
\* share storage.
C20_ChildNeverAliases ==
    [][/\ Len(paths') = Len(paths) + 1
       /\ \A k \in 1..Len(paths) :
            /\ paths'[k] = paths[k]
            /\ ChainAfter(paths[k]) = Chain(paths[k])
       /\ \E k \in 1..Len(paths), child \in ChildNames :
            /\ paths'[Len(paths')].root = paths[k].root
            /\ ChainAfter(paths'[Len(paths')]) = Append(Chain(paths[k]), child)
       /\ \A j, k \in 1..Len(paths') :
            (j # k /\ paths'[j].arr # 0) => paths'[j].arr # paths'[k].arr]_vars

\* C20 (witness): two children of one path with different names, and a
\* child of the first of them made after the second
C20_Witness ==
    \E p, a, b, c \in 1..Len(paths) :
      /\ p < a /\ a < b /\ b < c
      /\ Chain(paths[a]) = Append(Chain(paths[p]), <<"A">>)
      /\ Chain(paths[b]) = Append(Chain(paths[p]), <<"B">>)
      /\ Chain(paths[c]) = Append(Chain(paths[a]), <<"B">>)

----------------------------------------------------------------------------
\* Parse has been called and process has set out: it is in its loop, at the
\* check of required options, has returned or has panicked
InCall == pc \in {"loop", "required", "return", "done", "panic"}

\* the subcommands whose name token was consumed in this call, in order:
\* those entered at a token the loop has moved past
ConsumedDests ==
    LET es == SelectSeq(log, LAMBDA e : e.op = "enter" /\ e.at < i)
    IN [k \in 1..Len(es) |-> es[k].cmd]

\* the root when no subcommand token was consumed in this call, else the
\* subcommand entered last
ActiveCommand ==
    IF ConsumedDests = <<>> THEN cmd
    ELSE CHOOSE node \in Nodes(cmd) :
           node # cmd /\ node.dest = ConsumedDests[Len(ConsumedDests)]

\* C21: from the start of process to the return of Parse, with any
\* outcome, Parser.lastCmd is the active command: the root when no
\* subcommand token was consumed in this call, else the subcommand entered
\* last; what an earlier Parse on the same Parser left is not seen.
C21_LastCmdIsActive ==
    InCall =>
      /\ lastCmd = curCmd
      /\ lastCmd = ActiveCommand

\* C21 (witness): Parse returned after it entered a subcommand, and lastCmd
\* is that subcommand
C21_Witness ==
    /\ Returned
    /\ ConsumedDests # <<>>
    /\ lastCmd # cmd
    /\ lastCmd.dest = ConsumedDests[Len(ConsumedDests)]

\* C21 (witness): a later Parse that consumed no subcommand token returned
\* after an earlier one had entered a subcommand, and lastCmd is the root
C21_WitnessLater ==
    /\ Returned
    /\ EnteredBefore
    /\ ConsumedDests = <<>>
    /\ curCmd = cmd
    /\ lastCmd = curCmd

\* C21 (witness): the seeding of a subcommand failed at its token, and
\* lastCmd is still the command that was active
C21_WitnessSeedingFails ==
    /\ Returned
    /\ EnteredDests # <<>>
    /\ Len(ConsumedDests) < Len(EnteredDests)
    /\ lastCmd = curCmd

====
